---- MODULE Spec2Model ----
(***************************************************************************)
(* Model of the native code generator's streaming components               *)
(* (lettuce/native_generator/_streaming.py), of the Generator they         *)
(* contribute to, and of the kernel text they emit.                         *)
(*                                                                          *)
(* Further: the example driver (examples/manually_generate_cuda_native.py), *)
(* the AntiBounceBackOutlet constructor (lettuce/boundary.py) and the       *)
(* moment transforms (lettuce/moments.py).                                  *)
(*                                                                          *)
(* Specifications:                                                          *)
(*   Spec       - a Generator object and the generate_* calls made on it    *)
(*   DriverSpec - the driver's Generator, with boundaries, and generate()   *)
(*   KernelSpec - one launch after another of the emitted streaming kernel, *)
(*                one thread per lattice cell, threads interleaved          *)
(*   WrapSpec   - the write-back coordinate computation of one thread for   *)
(*                one direction, statement by statement                     *)
(*   MainSpec   - main() of the example driver, statement by statement      *)
(*   EnsureSpec - ensure_empty_dir() of the driver on a directory tree,     *)
(*                statement by statement (FairEnsureSpec: with progress)    *)
(*   OutletSpec - constructing an AntiBounceBackOutlet for a direction      *)
(*   MomentSpec - transform and inverse_transform of the moment transforms  *)
(***************************************************************************)
EXTENDS Integers, Sequences, FiniteSets, TLC

VARIABLES
    \* ---- Spec: the generator
    gen,        \* the Generator object: registry, slot tables, buffers
    streaming,  \* the configured streaming component: [kind, mask]
    stencilD,   \* D() of the configured stencil
    boundaries, \* the configured boundary list
    outputs,    \* what the generate() calls made so far returned
    trace,      \* calls and appends of the last generate() or generate_read_write()
    \* ---- KernelSpec: the emitted kernel running on a lattice
    kcfg,       \* [kind, mask, d, dimension]: variant, stencil and extents
    mem,        \* mem[b][offset]: the two distribution buffers
    simF,       \* simulation.f: which buffer it refers to
    simFNext,   \* simulation.f_next: which buffer it refers to
    noStreamMask, \* simulation.streaming.no_stream_mask[cell offset]
    pc,         \* pc[cell]: "read", "write" or "done"
    f_reg,      \* f_reg[cell][i]: the thread's registers
    step,       \* number of finished time steps
    fStart,     \* contents of simulation.f when the running launch began
    fNextStart, \* contents of simulation.f_next when it began
    lastLaunch, \* the finished launch: its f, its f_next, what f held
    \* ---- WrapSpec: one thread's destination coordinate for one direction
    wr,         \* [d, dimension, index, i, axis, coord, pc]
    \* ---- MainSpec: the example driver
    main,       \* [pc, verbose, install, structured_code, calls]
    fs,         \* the file system: path |-> "file" or "dir"
    stack,      \* the running ensure_empty_dir calls, innermost first
    \* ---- OutletSpec
    outlet,     \* [pc, D, direction, ...]: the boundary under construction
    \* ---- MomentSpec
    mt,         \* [pc, transform, f, m, back]
    \* ---- BounceBackSpec
    bounce,     \* [pc, D, dimension, mask, f, start, calls]
    \* ---- ReporterSpec
    reporter    \* [pc, interval, out, calls, evaluated]

genVars == <<gen, streaming, stencilD, boundaries, outputs, trace>>
kernelVars == <<kcfg, mem, simF, simFNext, noStreamMask, pc, f_reg, step, fStart, fNextStart, lastLaunch>>
wrapVars == <<wr>>
restVars == <<main, fs, stack, outlet, mt, bounce, reporter>>
vars == <<gen, streaming, stencilD, boundaries, outputs, trace,
          kcfg, mem, simF, simFNext, noStreamMask, pc, f_reg, step, fStart, fNextStart,
          lastLaunch, wr, main, fs, stack, outlet, mt, bounce, reporter>>

\* ------------------------------------------------------------------ bounds
MaxGenerate == 2
MaxBoundaries == 2
MaxCells == 3
MaxSteps == 2
MaxExtent == 3

\* ------------------------------------------------------------- stencils
\* Velocity tables, in the order the moment matrices list them.
D1Q3_e == << <<0>>, <<1>>, <<-1>> >>

D2Q9_e == << <<0, 0>>, <<1, 0>>, <<0, 1>>, <<-1, 0>>, <<0, -1>>,
             <<1, 1>>, <<-1, 1>>, <<-1, -1>>, <<1, -1>> >>

\* D3Q27: every vector of {-1,0,1}^3, the rest velocity first.
D3Q27_e ==
    LET all == { <<x, y, z>> : x \in {-1, 0, 1}, y \in {-1, 0, 1}, z \in {-1, 0, 1} }
        rank(v) == (v[1] * v[1] + v[2] * v[2] + v[3] * v[3]) * 27
                   + (1 - v[1]) * 9 + (1 - v[2]) * 3 + (1 - v[3])
        nth[k \in 1..27] == CHOOSE v \in all : Cardinality({u \in all : rank(u) < rank(v)}) = k - 1
    IN  [k \in 1..27 |-> nth[k]]

StencilE(d) == IF d = 1 THEN D1Q3_e ELSE IF d = 2 THEN D2Q9_e ELSE D3Q27_e

StencilQ(d) == Len(StencilE(d))

\* ------------------------------------------------------- Generator object
NoError == "none"
GenerationError == "GenerationError"

BufferNames == {"preamble_buffer", "index_buffer", "collision_buffer", "write_buffer",
                "python_wrapper_before_buffer", "python_wrapper_after_buffer"}

\* A fresh Generator: empty registry, slot tables and buffers.
EmptyGenerator ==
    [reg |-> {},
     kernel_hooks |-> <<>>,
     launcher_hooks |-> <<>>,
     preamble_buffer |-> <<>>,
     index_buffer |-> <<>>,
     collision_buffer |-> <<>>,
     write_buffer |-> <<>>,
     python_wrapper_before_buffer |-> <<>>,
     python_wrapper_after_buffer |-> <<>>,
     error |-> NoError,
     log |-> <<>>]

Failed(g) == g.error # NoError

\* The trace of the call in progress: which generate_* were entered and which
\* buffers were appended to, in order.
Logged(g, kind, what) == [g EXCEPT !.log = Append(@, <<kind, what>>)]

Enter(g, name) == IF Failed(g) THEN g ELSE Logged(g, "call", name)

registered(g, key) == key \in g.reg

register(g, key) ==
    IF Failed(g) THEN g ELSE [g EXCEPT !.reg = @ \cup {key}]

HookNames(table) == {table[k].name : k \in 1..Len(table)}

HookType(table, name) ==
    LET k == CHOOSE k \in 1..Len(table) : table[k].name = name IN table[k].type

\* A variant of the launcher query that looks the name up in the kernel
\* table.
launcher_hooked_KernelTable(g, name) == name \in HookNames(g.kernel_hooks)

launcher_hooked(g, name) == name \in HookNames(g.launcher_hooks)

kernel_hooked(g, name) == name \in HookNames(g.kernel_hooks)

\* Registering a name again with another declared type is a GenerationError;
\* with the same type it changes nothing.
HookInto(g, tableName, name, type, value) ==
    IF Failed(g) THEN g
    ELSE IF name \in HookNames(g[tableName])
         THEN IF HookType(g[tableName], name) = type
              THEN g
              ELSE [g EXCEPT !.error = GenerationError]
         ELSE [g EXCEPT ![tableName] =
                   Append(@, [name |-> name, type |-> type, value |-> value])]

launcher_hook(g, name, type, arg, value) ==
    HookInto(g, "launcher_hooks", name, type, <<arg, value>>)

kernel_hook(g, name, type, value) ==
    HookInto(g, "kernel_hooks", name, type, <<value>>)

\* append_*_buffer(text, cond=True)
AppendBuffer(g, buf, text, cond) ==
    IF Failed(g) \/ ~cond THEN g
    ELSE Logged([g EXCEPT ![buf] = Append(@, text)], "append", buf)

\* A run of append calls on one buffer, each line with its cond.
AppendLines(g, buf, lines) ==
    IF Failed(g) THEN g
    ELSE LET kept == SelectSeq(lines, LAMBDA l : l[2])
             texts == [k \in 1..Len(kept) |-> kept[k][1]]
             events == [k \in 1..Len(kept) |-> <<"append", buf>>]
         IN  [g EXCEPT ![buf] = @ \o texts, !.log = @ \o events]

append_index_buffer(g, lines) == AppendLines(g, "index_buffer", lines)

append_write_buffer(g, lines) == AppendLines(g, "write_buffer", lines)

append_python_wrapper_before_buffer(g, text) ==
    AppendBuffer(g, "python_wrapper_before_buffer", text, TRUE)

append_python_wrapper_after_buffer(g, text) ==
    AppendBuffer(g, "python_wrapper_after_buffer", text, TRUE)

\* ------------------------------------------------- primitive generators
\* generate_q, generate_d, generate_e, generate_offset, generate_index,
\* generate_dimension: each declares its FragmentKey once and appends its
\* definition to the kernel preamble.
PrimitiveNames == {"q", "d", "e", "offset", "index", "dimension"}

PrimitiveText(name, d) ==
    CASE name = "q" -> "constexpr index_t q = " \o ToString(StencilQ(d)) \o ";"
      [] name = "d" -> "constexpr index_t d = " \o ToString(d) \o ";"
      [] name = "e" -> "constexpr index_t e[q][d] = D" \o ToString(d) \o "Q" \o ToString(StencilQ(d)) \o ".e;"
      [] name = "offset" -> "const index_t offset = blockIdx * blockDim + threadIdx;"
      [] name = "index" -> "const index_t index[d] = { offset / stride };"
      [] name = "dimension" -> "const index_t dimension[d] = f.sizes();"

GeneratePrimitive(g0, name, d) ==
    LET g1 == Enter(g0, "generate_" \o name) IN
    IF registered(g1, name) THEN g1
    ELSE AppendBuffer(register(g1, name), "preamble_buffer", PrimitiveText(name, d), TRUE)

\* get_lattice_coordinate: the flattened (row-major) offset of a coordinate
\* list, as an expression over the dimension primitive.  The list is either
\* the d cell coordinates or the direction followed by them.
RECURSIVE CoordinateText(_, _, _)
CoordinateText(coord, n, d) ==
    IF n = 1 THEN coord[1]
    ELSE "(" \o CoordinateText(coord, n - 1, d) \o ") * dimension["
         \o ToString(n - 1 - (Len(coord) - d)) \o "] + " \o coord[n]

get_lattice_coordinate(coord, d) == CoordinateText(coord, Len(coord), d)

\* ------------------------------------------------- streaming components
NoStreamMaskLauncherType == "const at::Tensor no_stream_mask"
NoStreamMaskKernelType == "const byte_t* no_stream_mask"
FNextLauncherType == "at::Tensor f_next"
FNextKernelType == "scalar_t *f_next"
NoStreamMaskAssertion == "assert hasattr(simulation.streaming, 'no_stream_mask')"
FNextAssertion == "assert hasattr(simulation, 'f_next')"
SwapStatement == "simulation.f, simulation.f_next = simulation.f_next, simulation.f"

\* A variant of the name property without the tag of the mask.
StreamingName_NoMaskTag(s) == IF s.kind = "no" THEN "no" ELSE "standard"

StreamingName(s) ==
    (IF s.kind = "no" THEN "no" ELSE "standard") \o (IF s.mask THEN "M" ELSE "")

StreamingClasses == {"NativeNoStreaming", "NativeStandardStreaming"}

\* create(support_no_streaming_mask) of the class
create(class, support_no_streaming_mask) ==
    IF class = "NativeNoStreaming"
    THEN [kind |-> "no", mask |-> FALSE]
    ELSE [kind |-> "standard", mask |-> support_no_streaming_mask]

\* generate_no_stream_mask without the launcher_hooked check: the assertion
\* and the launcher parameter are declared on every call.
generate_no_stream_mask_Unchecked(g0) ==
    LET g1 == Enter(g0, "generate_no_stream_mask")
        g2 == launcher_hook(
                  append_python_wrapper_before_buffer(g1, NoStreamMaskAssertion),
                  "no_stream_mask", NoStreamMaskLauncherType,
                  "no_stream_mask", "simulation.streaming.no_stream_mask")
    IN  IF ~kernel_hooked(g2, "no_stream_mask")
        THEN kernel_hook(g2, "no_stream_mask", NoStreamMaskKernelType,
                         "no_stream_mask.data<byte_t>()")
        ELSE g2

\* NativeStreaming.generate_no_stream_mask
generate_no_stream_mask(g0) ==
    LET g1 == Enter(g0, "generate_no_stream_mask")
        g2 == IF ~launcher_hooked(g1, "no_stream_mask")
              THEN launcher_hook(
                       append_python_wrapper_before_buffer(g1, NoStreamMaskAssertion),
                       "no_stream_mask", NoStreamMaskLauncherType,
                       "no_stream_mask", "simulation.streaming.no_stream_mask")
              ELSE g1
    IN  IF ~kernel_hooked(g2, "no_stream_mask")
        THEN kernel_hook(g2, "no_stream_mask", NoStreamMaskKernelType,
                         "no_stream_mask.data<byte_t>()")
        ELSE g2

\* generate_f_next without the registered check and the register call.
generate_f_next_Unregistered(g0) ==
    LET g1 == Enter(g0, "generate_f_next")
        g3 == append_python_wrapper_after_buffer(g1, SwapStatement)
        g4 == IF ~launcher_hooked(g3, "f_next")
              THEN launcher_hook(
                       append_python_wrapper_before_buffer(g3, FNextAssertion),
                       "f_next", FNextLauncherType, "f_next", "simulation.f_next")
              ELSE g3
    IN  IF ~kernel_hooked(g4, "f_next")
        THEN kernel_hook(g4, "f_next", FNextKernelType, "f_next.data<scalar_t>()")
        ELSE g4

\* generate_f_next without the post-launch statement.
generate_f_next_NoSwap(g0) ==
    LET g1 == Enter(g0, "generate_f_next") IN
    IF registered(g1, "f_next") THEN g1
    ELSE LET g2 == register(g1, "f_next")
             g4 == IF ~launcher_hooked(g2, "f_next")
                   THEN launcher_hook(
                            append_python_wrapper_before_buffer(g2, FNextAssertion),
                            "f_next", FNextLauncherType, "f_next", "simulation.f_next")
                   ELSE g2
         IN  IF ~kernel_hooked(g4, "f_next")
             THEN kernel_hook(g4, "f_next", FNextKernelType, "f_next.data<scalar_t>()")
             ELSE g4

\* generate_f_next declaring the kernel parameter as a pointer to const.
generate_f_next_ConstPointer(g0) ==
    LET g1 == Enter(g0, "generate_f_next") IN
    IF registered(g1, "f_next") THEN g1
    ELSE LET g2 == register(g1, "f_next")
             g3 == append_python_wrapper_after_buffer(g2, SwapStatement)
             g4 == IF ~launcher_hooked(g3, "f_next")
                   THEN launcher_hook(
                            append_python_wrapper_before_buffer(g3, FNextAssertion),
                            "f_next", FNextLauncherType, "f_next", "simulation.f_next")
                   ELSE g3
         IN  IF ~kernel_hooked(g4, "f_next")
             THEN kernel_hook(g4, "f_next", "const scalar_t *f_next",
                              "f_next.data<scalar_t>()")
             ELSE g4

\* NativeStandardStreaming.generate_f_next
generate_f_next(g0) ==
    LET g1 == Enter(g0, "generate_f_next") IN
    IF registered(g1, "f_next") THEN g1
    ELSE LET g2 == register(g1, "f_next")
             g3 == append_python_wrapper_after_buffer(g2, SwapStatement)
             g4 == IF ~launcher_hooked(g3, "f_next")
                   THEN launcher_hook(
                            append_python_wrapper_before_buffer(g3, FNextAssertion),
                            "f_next", FNextLauncherType, "f_next", "simulation.f_next")
                   ELSE g3
         IN  IF ~kernel_hooked(g4, "f_next")
             THEN kernel_hook(g4, "f_next", FNextKernelType, "f_next.data<scalar_t>()")
             ELSE g4

\* The read block both variants append to the index buffer.
ReadLines(d, coord, indent) ==
    << <<"", TRUE>>,
       <<indent \o "scalar_t f_reg[q];", TRUE>>,
       <<"", TRUE>>,
       <<"#pragma unroll", TRUE>>,
       <<indent \o "for (index_t i = 0; i < q; ++i) {", TRUE>>,
       <<"", TRUE>>,
       <<indent \o "  const index_t q_ = i;", TRUE>>,
       <<indent \o "  const index_t x_ = index[0];", d > 0>>,
       <<indent \o "  const index_t y_ = index[1];", d > 1>>,
       <<indent \o "  const index_t z_ = index[2];", d > 2>>,
       <<"", TRUE>>,
       <<indent \o "  f_reg[i] = f[" \o coord \o "];", TRUE>>,
       <<indent \o "}", TRUE>>,
       <<"", TRUE>> >>

NoStreamingWriteLines(d, coord) ==
    << <<"", TRUE>>,
       <<"#pragma unroll", TRUE>>,
       <<"    for (index_t i = 0; i < q; ++i) {", TRUE>>,
       <<"", TRUE>>,
       <<"      const index_t q_ = i;", TRUE>>,
       <<"      const index_t x_ = index[0];", d > 0>>,
       <<"      const index_t y_ = index[1];", d > 1>>,
       <<"      const index_t z_ = index[2];", d > 2>>,
       <<"", TRUE>>,
       <<"      f[" \o coord \o "] = f_reg[i];", TRUE>>,
       <<"    }", TRUE>>,
       <<"", TRUE>> >>

AxisName(a) == <<"x_", "y_", "z_">>[a + 1]

\* The three wraparound lines of axis a, and the blank line after them.
WrapLines(a, cond) ==
    LET n == ToString(a) IN
    << <<"      index_t " \o AxisName(a) \o " = index[" \o n \o "] + e[i][" \o n \o "];", cond>>,
       <<"            if (" \o AxisName(a) \o " <  0)            " \o AxisName(a)
             \o " += dimension[" \o n \o "];", cond>>,
       <<"       else if (" \o AxisName(a) \o " >= dimension[" \o n \o "]) " \o AxisName(a)
             \o " -= dimension[" \o n \o "];", cond>>,
       <<"", cond>> >>

StandardStreamingWriteLines(d, coord, mask_coord, mask) ==
    << <<"", TRUE>>,
       <<"#pragma unroll", TRUE>>,
       <<"  for (index_t i = 0; i < q; ++i) {", TRUE>>,
       <<"", TRUE>>,
       <<"    const index_t q_ = i;", TRUE>>,
       <<"", mask>>,
       <<"    if (no_stream_mask[" \o mask_coord \o "]) {", mask>>,
       <<"", mask>>,
       <<"      const index_t x_ = index[0];", mask /\ d > 0>>,
       <<"      const index_t y_ = index[1];", mask /\ d > 1>>,
       <<"      const index_t z_ = index[2];", mask /\ d > 2>>,
       <<"", mask>>,
       <<"      f_next[" \o coord \o "] = f_reg[i];", mask>>,
       <<"", mask>>,
       <<"    } else {", mask>>,
       <<"", TRUE>> >>
    \o WrapLines(0, d > 0) \o WrapLines(1, d > 1) \o WrapLines(2, d > 2) \o
    << <<"      f_next[" \o coord \o "] = f_reg[i];", TRUE>>,
       <<"", TRUE>>,
       <<"    }", mask>>,
       <<"  }", TRUE>>,
       <<"", TRUE>> >>

\* NativeNoStreaming.generate_read_write
NoStreaming_generate_read_write(g0, d) ==
    LET g1 == Enter(g0, "generate_read_write") IN
    IF registered(g1, "read_write()") THEN g1
    ELSE LET g2 == register(g1, "read_write()")
             g3 == GeneratePrimitive(g2, "q", d)
             g4 == GeneratePrimitive(g3, "d", d)
             g5 == GeneratePrimitive(g4, "offset", d)
             coord == get_lattice_coordinate(SubSeq(<<"q_", "x_", "y_", "z_">>, 1, d + 1), d)
             g6 == append_index_buffer(g5, ReadLines(d, coord, "    "))
         IN  append_write_buffer(g6, NoStreamingWriteLines(d, coord))

\* generate_read_write requesting the velocity table after the read block.
StandardStreaming_generate_read_write_LateE(g0, d, mask) ==
    LET g1 == Enter(g0, "generate_read_write") IN
    IF registered(g1, "read_write()") THEN g1
    ELSE LET g2 == register(g1, "read_write()")
             g3 == IF mask THEN generate_no_stream_mask(g2) ELSE g2
             g4 == generate_f_next(g3)
             g5 == GeneratePrimitive(g4, "offset", d)
             g6 == GeneratePrimitive(g5, "index", d)
             g7 == GeneratePrimitive(g6, "dimension", d)
             g8 == GeneratePrimitive(g7, "q", d)
             coord == get_lattice_coordinate(SubSeq(<<"q_", "x_", "y_", "z_">>, 1, d + 1), d)
             mask_coord == get_lattice_coordinate(
                               SubSeq(<<"index[0]", "index[1]", "index[2]">>, 1, d), d)
             g9 == append_index_buffer(g8, ReadLines(d, coord, "  "))
             g10 == GeneratePrimitive(g9, "e", d)
         IN  append_write_buffer(g10, StandardStreamingWriteLines(d, coord, mask_coord, mask))

\* NativeStandardStreaming.generate_read_write
StandardStreaming_generate_read_write(g0, d, mask) ==
    LET g1 == Enter(g0, "generate_read_write") IN
    IF registered(g1, "read_write()") THEN g1
    ELSE LET g2 == register(g1, "read_write()")
             g3 == IF mask THEN generate_no_stream_mask(g2) ELSE g2
             g4 == generate_f_next(g3)
             g5 == GeneratePrimitive(g4, "offset", d)
             g6 == GeneratePrimitive(g5, "index", d)
             g7 == GeneratePrimitive(g6, "dimension", d)
             g8 == GeneratePrimitive(g7, "q", d)
             g9 == GeneratePrimitive(g8, "e", d)
             coord == get_lattice_coordinate(SubSeq(<<"q_", "x_", "y_", "z_">>, 1, d + 1), d)
             mask_coord == get_lattice_coordinate(
                               SubSeq(<<"index[0]", "index[1]", "index[2]">>, 1, d), d)
             g10 == append_index_buffer(g9, ReadLines(d, coord, "  "))
         IN  append_write_buffer(g10, StandardStreamingWriteLines(d, coord, mask_coord, mask))

\* generate_read_write taking the mask branch whatever the flag says.
generate_read_write_MaskAlways(g, s, d) ==
    IF s.kind = "no" THEN NoStreaming_generate_read_write(g, d)
    ELSE StandardStreaming_generate_read_write(g, d, TRUE)

\* streaming.generate_read_write of the configured variant
generate_read_write(g, s, d) ==
    IF s.kind = "no" THEN NoStreaming_generate_read_write(g, d)
    ELSE StandardStreaming_generate_read_write(g, d, s.mask)

\* ------------------------------------------- the other component families
BoundaryKinds == {"plain", "masked", "typed"}

\* The declared type a "typed" boundary gives the mask parameter.
BoundaryMaskType == "const bool* no_stream_mask"

\* The top-level contribution of the stencil: its primitives.
Stencil_generate(g0, d) ==
    LET g1 == Enter(g0, "stencil")
        g2 == GeneratePrimitive(g1, "q", d)
    IN  GeneratePrimitive(g2, "d", d)

\* An equilibrium, a collision: one fragment each, emitted once.
Component_generate(g0, family) ==
    LET g1 == Enter(g0, family) IN
    IF registered(g1, family \o "()") THEN g1
    ELSE AppendBuffer(register(g1, family \o "()"), "collision_buffer",
                      "  " \o family \o "(f_reg);", TRUE)

\* The k-th boundary of the list.  Every boundary needs the offset primitive;
\* a "masked" one asks the streaming component for the no-stream mask; a
\* "typed" one declares the mask as a kernel parameter itself, with its own type.
Boundary_generate(g0, k, kind, d) ==
    LET key == "boundary_" \o ToString(k) \o "()"
        g1 == Enter(g0, "boundary_" \o ToString(k)) IN
    IF registered(g1, key) THEN g1
    ELSE LET g2 == GeneratePrimitive(register(g1, key), "offset", d)
             g3 == IF kind = "masked" THEN generate_no_stream_mask(g2) ELSE g2
             g4 == IF kind = "typed"
                   THEN kernel_hook(g3, "no_stream_mask", BoundaryMaskType,
                                    "no_stream_mask.data<bool>()")
                   ELSE g3
         IN  AppendBuffer(g4, "collision_buffer",
                          "  boundary_" \o ToString(k) \o "(f_reg);", TRUE)

RECURSIVE Boundaries_generate(_, _, _, _)
Boundaries_generate(g, bs, k, d) ==
    IF k > Len(bs) THEN g
    ELSE Boundaries_generate(Boundary_generate(g, k, bs[k], d), bs, k + 1, d)

\* A reset that empties the buffers and the registry, not the slot tables.
reset_KeepSlots(g) ==
    Logged([g EXCEPT !.reg = {},
                     !.preamble_buffer = <<>>,
                     !.index_buffer = <<>>,
                     !.collision_buffer = <<>>,
                     !.write_buffer = <<>>,
                     !.python_wrapper_before_buffer = <<>>,
                     !.python_wrapper_after_buffer = <<>>,
                     !.error = NoError,
                     !.log = <<>>], "reset", "")

\* ------------------------------------------------------------ generate()
\* Generator.reset: a generation run starts from empty buffers, an empty
\* registry and empty slot tables, whatever the object held before.
reset(g) ==
    Logged([g EXCEPT !.reg = {},
                     !.kernel_hooks = <<>>,
                     !.launcher_hooks = <<>>,
                     !.preamble_buffer = <<>>,
                     !.index_buffer = <<>>,
                     !.collision_buffer = <<>>,
                     !.write_buffer = <<>>,
                     !.python_wrapper_before_buffer = <<>>,
                     !.python_wrapper_after_buffer = <<>>,
                     !.error = NoError,
                     !.log = <<>>], "reset", "")

\* The buffer mapping generate() returns.
BufferMapping(g) == [b \in BufferNames |-> g[b]]

\* A generate() that lets the collision contribute before the equilibrium.
GenerateRun_CollisionFirst(g0, s, d, bs) ==
    LET g1 == Stencil_generate(reset(g0), d)
        g2 == Component_generate(g1, "collision")
        g3 == Component_generate(g2, "equilibrium")
        g4 == Boundaries_generate(g3, bs, 1, d)
    IN  generate_read_write(Enter(g4, "streaming"), s, d)

\* Generator.generate(): reset, then the components in dependency order.
GenerateRun(g0, s, d, bs) ==
    LET g1 == Stencil_generate(reset(g0), d)
        g2 == Component_generate(g1, "equilibrium")
        g3 == Component_generate(g2, "collision")
        g4 == Boundaries_generate(g3, bs, 1, d)
    IN  generate_read_write(Enter(g4, "streaming"), s, d)

\* What the caller of generate() gets: the mapping, or the error raised.
GenerateResult(g) ==
    IF Failed(g) THEN [raised |-> g.error] ELSE [returned |-> BufferMapping(g)]

\* ------------------------------------------------------- configurations
StreamingConfigs ==
    {[kind |-> "no", mask |-> FALSE],
     [kind |-> "standard", mask |-> FALSE],
     [kind |-> "standard", mask |-> TRUE]}

\* The other specifications' variables, at rest.
KernelIdle ==
    /\ kcfg = [kind |-> "no", mask |-> FALSE, d |-> 1, dimension |-> <<1>>, after |-> <<>>,
               hooks |-> {}]
    /\ mem = <<>>
    /\ simF = 0
    /\ simFNext = 0
    /\ noStreamMask = <<>>
    /\ pc = <<>>
    /\ f_reg = <<>>
    /\ step = 0
    /\ fStart = <<>>
    /\ fNextStart = <<>>
    /\ lastLaunch = <<>>

WrapIdle == wr = [pc |-> "idle"]

MoreIdle ==
    /\ bounce = [pc |-> "idle"]
    /\ reporter = [pc |-> "idle"]

RestIdle ==
    /\ MoreIdle
    /\ main = [pc |-> "idle"]
    /\ fs = <<>>
    /\ stack = <<>>
    /\ outlet = [pc |-> "idle"]
    /\ mt = [pc |-> "idle"]

GenIdle ==
    /\ gen = EmptyGenerator
    /\ streaming = [kind |-> "no", mask |-> FALSE]
    /\ stencilD = 1
    /\ boundaries = <<>>
    /\ outputs = <<>>
    /\ trace = <<>>

\* ------------------------------------------------------ the emitted kernel
\* The value of the expression get_lattice_coordinate returns.
RECURSIVE LatticeOffset(_, _, _)
LatticeOffset(coord, n, dimension) ==
    IF n = 1 THEN coord[1]
    ELSE LatticeOffset(coord, n - 1, dimension)
             * dimension[n - (Len(coord) - Len(dimension))] + coord[n]

\* coord: direction q_ at cell (x_, y_, z_); mask_coord: the cell itself.
Coord(q_, cell, dimension) ==
    LatticeOffset(<<q_>> \o cell, Len(cell) + 1, dimension)

MaskCoord(index, dimension) == LatticeOffset(index, Len(index), dimension)

RECURSIVE Product(_, _)
Product(dimension, n) == IF n = 0 THEN 1 ELSE Product(dimension, n - 1) * dimension[n]

CellCount(dimension) == Product(dimension, Len(dimension))

\* The threads of a launch: one per lattice cell, named by its index[].
Cells(dimension) ==
    IF Len(dimension) = 1
    THEN { <<x>> : x \in 0..(dimension[1] - 1) }
    ELSE IF Len(dimension) = 2
    THEN { <<x, y>> : x \in 0..(dimension[1] - 1), y \in 0..(dimension[2] - 1) }
    ELSE { <<x, y, z>> : x \in 0..(dimension[1] - 1), y \in 0..(dimension[2] - 1),
                         z \in 0..(dimension[3] - 1) }

\* The wraparound without its first branch.
WrapCoordinate_UpperOnly(index_a, e_a, dimension_a) ==
    LET x_ == index_a + e_a IN
    IF x_ >= dimension_a THEN x_ - dimension_a
    ELSE x_

\* index_t x_ = index[a] + e[i][a];
\*       if (x_ <  0)            x_ += dimension[a];
\*  else if (x_ >= dimension[a]) x_ -= dimension[a];
WrapCoordinate(index_a, e_a, dimension_a) ==
    LET x_ == index_a + e_a IN
    IF x_ < 0 THEN x_ + dimension_a
    ELSE IF x_ >= dimension_a THEN x_ - dimension_a
    ELSE x_

\* The array-based streaming operator: the population of direction q
\* at cell c is the one that was at the cell c - e[q], periodically.
ReferenceStreaming(f, dimension) ==
    LET n == CellCount(dimension)
        e == StencilE(Len(dimension))
        q(o) == o \div n
        cell(o) == [a \in 1..Len(dimension) |->
                       ((o % n) \div (n \div Product(dimension, a))) % dimension[a]]
        from(o) == [a \in 1..Len(dimension) |->
                       (cell(o)[a] - e[q(o) + 1][a]) % dimension[a]]
    IN  [o \in DOMAIN f |-> f[Coord(q(o), from(o), dimension)]]

\* A variant of the write-back that moves every population against its
\* direction.
StandardDestination_Against(index, i, dimension, mask, masked) ==
    IF mask /\ masked THEN index
    ELSE [a \in 1..Len(index) |->
              WrapCoordinate(index[a], -StencilE(Len(index))[i + 1][a], dimension[a])]

\* A variant of the write-back that stops at the edge of the grid where
\* the wraparound belongs.
StandardDestination_Clamped(index, i, dimension, mask, masked) ==
    IF mask /\ masked THEN index
    ELSE [a \in 1..Len(index) |->
              LET x_ == index[a] + StencilE(Len(index))[i + 1][a]
              IN  IF x_ < 0 THEN 0 ELSE IF x_ >= dimension[a] THEN dimension[a] - 1 ELSE x_]

\* The cell direction i (0-based) of the thread at index is written to.
StandardDestination(index, i, dimension, mask, masked) ==
    IF mask /\ masked THEN index
    ELSE [a \in 1..Len(index) |->
              WrapCoordinate(index[a], StencilE(Len(index))[i + 1][a], dimension[a])]

\* A variant that applies the neighbour offset of direction i.
NoStreamingDestination_Shifted(index, i, dimension) ==
    StandardDestination(index, i, dimension, FALSE, FALSE)

NoStreamingDestination(index, i, dimension) == index

Destination(cfg, index, i, masked) ==
    IF cfg.kind = "no" THEN NoStreamingDestination(index, i, cfg.dimension)
    ELSE StandardDestination(index, i, cfg.dimension, cfg.mask, masked)

\* The write loop of one thread, directions 0 .. i-1 done in order.
RECURSIVE WriteLoop(_, _, _, _, _, _)
WriteLoop(buffer, cfg, index, regs, masked, i) ==
    IF i = 0 THEN buffer
    ELSE [WriteLoop(buffer, cfg, index, regs, masked, i - 1) EXCEPT
              ![Coord(i - 1, Destination(cfg, index, i - 1, masked), cfg.dimension)] =
                  regs[i - 1]]

\* The buffer the kernel writes: f itself without f_next, else f_next.
WrittenBuffer(cfg, f, f_next) == IF cfg.kind = "no" THEN f ELSE f_next

\* The post-launch wrapper: the statements of python_wrapper_after_buffer,
\* generated once, before the simulation runs.
AfterBuffer(s, d) ==
    GenerateRun(EmptyGenerator, s, d, <<>>).python_wrapper_after_buffer

\* The names of the launcher and kernel parameters of the generated module.
HookedNames(s, d) ==
    LET g == GenerateRun(EmptyGenerator, s, d, <<>>)
    IN  HookNames(g.launcher_hooks) \cup HookNames(g.kernel_hooks)

RECURSIVE RunAfter(_, _, _)
RunAfter(statements, f, f_next) ==
    IF statements = <<>> THEN <<f, f_next>>
    ELSE IF statements[1] = SwapStatement
         THEN RunAfter(Tail(statements), f_next, f)
         ELSE RunAfter(Tail(statements), f, f_next)

\* ------------------------------------------------------------ KernelSpec
Grids ==
    { <<n>> : n \in 1..MaxCells }
    \cup { <<nx, ny>> : nx \in 1..MaxCells, ny \in 1..MaxCells }

KernelConfigs ==
    { [kind |-> s.kind, mask |-> s.mask, d |-> Len(g), dimension |-> g,
       after |-> AfterBuffer(s, Len(g)), hooks |-> HookedNames(s, Len(g))] :
          s \in StreamingConfigs, g \in {h \in Grids : CellCount(h) <= MaxCells} }

Slots(cfg) == 0..(StencilQ(cfg.d) * CellCount(cfg.dimension) - 1)

Stale == -1

KernelInit ==
    /\ kcfg \in KernelConfigs
    /\ mem = [b \in 0..1 |-> [o \in Slots(kcfg) |-> IF b = 0 THEN o ELSE Stale]]
    /\ simF = 0
    /\ simFNext = 1
    /\ noStreamMask \in [0..(CellCount(kcfg.dimension) - 1) -> BOOLEAN]
    /\ (~kcfg.mask => \A c \in DOMAIN noStreamMask : ~noStreamMask[c])
    /\ pc = [c \in Cells(kcfg.dimension) |-> "read"]
    /\ f_reg = [c \in Cells(kcfg.dimension) |-> <<>>]
    /\ step = 0
    /\ fStart = mem[0]
    /\ fNextStart = mem[1]
    /\ lastLaunch = <<>>
    /\ GenIdle
    /\ WrapIdle
    /\ RestIdle

\* The read block of the thread at index c.
Read(c) ==
    /\ step < MaxSteps
    /\ pc[c] = "read"
    /\ f_reg' = [f_reg EXCEPT ![c] =
                     [i \in 0..(StencilQ(kcfg.d) - 1) |->
                          mem[simF][Coord(i, c, kcfg.dimension)]]]
    /\ pc' = [pc EXCEPT ![c] = "write"]
    /\ UNCHANGED <<kcfg, mem, simF, simFNext, noStreamMask, step, fStart, fNextStart,
                   lastLaunch>>
    /\ UNCHANGED <<genVars, wrapVars, restVars>>

\* The write block of the thread at index c.
Write(c) ==
    /\ pc[c] = "write"
    /\ LET target == WrittenBuffer(kcfg, simF, simFNext)
           masked == noStreamMask[MaskCoord(c, kcfg.dimension)]
       IN  mem' = [mem EXCEPT ![target] =
                       WriteLoop(@, kcfg, c, f_reg[c], masked, StencilQ(kcfg.d))]
    /\ pc' = [pc EXCEPT ![c] = "done"]
    /\ UNCHANGED <<kcfg, simF, simFNext, noStreamMask, f_reg, step, fStart, fNextStart,
                   lastLaunch>>
    /\ UNCHANGED <<genVars, wrapVars, restVars>>

\* The launch is over: the wrapper runs its post-launch statements.
PostLaunch ==
    /\ \A c \in DOMAIN pc : pc[c] = "done"
    /\ LET after == RunAfter(kcfg.after, simF, simFNext) IN
         /\ simF' = after[1]
         /\ simFNext' = after[2]
         /\ fStart' = mem[after[1]]
         /\ fNextStart' = mem[after[2]]
    /\ lastLaunch' = [f |-> simF, f_next |-> simFNext, read |-> fStart]
    /\ step' = step + 1
    /\ pc' = [c \in DOMAIN pc |-> "read"]
    /\ f_reg' = [c \in DOMAIN pc |-> <<>>]
    /\ UNCHANGED <<kcfg, mem, noStreamMask>>
    /\ UNCHANGED <<genVars, wrapVars, restVars>>

KernelNext ==
    \/ \E c \in DOMAIN pc : Read(c)
    \/ \E c \in DOMAIN pc : Write(c)
    \/ PostLaunch

KernelSpec == KernelInit /\ [][KernelNext]_vars

\* -------------------------------------------------------------- WrapSpec
\* One thread, one direction: the write-back computes x_, then y_, then z_.
WrapInit ==
    /\ \E d \in 1..3 :
       \E dimension \in [1..d -> 1..MaxExtent] :
       \E index \in Cells(dimension) :
       \E i \in 0..(StencilQ(d) - 1) :
           wr = [d |-> d, dimension |-> dimension, index |-> index, i |-> i,
                 coord |-> <<>>, pc |-> "wrap"]
    /\ GenIdle
    /\ KernelIdle
    /\ RestIdle

\* The wraparound lines of the next axis.
WrapAxis ==
    /\ wr.pc = "wrap"
    /\ LET a == Len(wr.coord) + 1
           x_ == WrapCoordinate(wr.index[a], StencilE(wr.d)[wr.i + 1][a], wr.dimension[a])
       IN  wr' = [wr EXCEPT !.coord = Append(@, x_),
                            !.pc = IF a = wr.d THEN "store" ELSE "wrap"]
    /\ UNCHANGED <<genVars, kernelVars, restVars>>

\* f_next[coord] = f_reg[i];
WrapStore ==
    /\ wr.pc = "store"
    /\ wr' = [wr EXCEPT !.pc = "done"]
    /\ UNCHANGED <<genVars, kernelVars, restVars>>

WrapNext == WrapAxis \/ WrapStore

WrapSpec == WrapInit /\ [][WrapNext]_vars

\* ------------------------------------------------------------------ Spec
BoundaryLists == UNION {[1..n -> BoundaryKinds] : n \in 0..MaxBoundaries}

\* A Generator constructed for a stencil and a streaming variant, no boundaries.
Init ==
    /\ gen = EmptyGenerator
    /\ streaming \in StreamingConfigs
    /\ stencilD \in 1..3
    /\ boundaries = <<>>
    /\ outputs = <<>>
    /\ trace = <<>>
    /\ KernelIdle
    /\ WrapIdle
    /\ RestIdle

\* The driver's Generator: constructed with a list of boundaries as well.
DriverInit ==
    /\ gen = EmptyGenerator
    /\ streaming \in StreamingConfigs
    /\ stencilD \in 1..3
    /\ boundaries \in BoundaryLists
    /\ outputs = <<>>
    /\ trace = <<>>
    /\ KernelIdle
    /\ WrapIdle
    /\ RestIdle

\* A call starts with an empty trace; the object keeps none between calls.
Fresh(g) == [g EXCEPT !.log = <<>>]

\* structured_code = generator.generate()
Generate ==
    /\ Len(outputs) < MaxGenerate
    /\ LET g == GenerateRun(gen, streaming, stencilD, boundaries) IN
         /\ gen' = Fresh(g)
         /\ trace' = g.log
         /\ outputs' = Append(outputs, GenerateResult(g))
    /\ UNCHANGED <<streaming, stencilD, boundaries, kernelVars, wrapVars, restVars>>

\* A component calls streaming.generate_no_stream_mask(generator).
CallGenerateNoStreamMask ==
    /\ ~Failed(gen)
    /\ gen' = Fresh(generate_no_stream_mask(gen))
    /\ trace' = <<>>
    /\ UNCHANGED <<streaming, stencilD, boundaries, outputs, kernelVars, wrapVars, restVars>>

\* A component calls streaming.generate_f_next(generator).
CallGenerateFNext ==
    /\ ~Failed(gen)
    /\ streaming.kind = "standard"
    /\ gen' = Fresh(generate_f_next(gen))
    /\ trace' = <<>>
    /\ UNCHANGED <<streaming, stencilD, boundaries, outputs, kernelVars, wrapVars, restVars>>

\* A component calls streaming.generate_read_write(generator).
CallGenerateReadWrite ==
    /\ ~Failed(gen)
    /\ LET g == generate_read_write(gen, streaming, stencilD) IN
         /\ gen' = Fresh(g)
         /\ trace' = g.log
    /\ UNCHANGED <<streaming, stencilD, boundaries, outputs, kernelVars, wrapVars, restVars>>

\* A component requests the offset primitive.
CallGenerateOffset ==
    /\ ~Failed(gen)
    /\ gen' = Fresh(GeneratePrimitive(gen, "offset", stencilD))
    /\ trace' = <<>>
    /\ UNCHANGED <<streaming, stencilD, boundaries, outputs, kernelVars, wrapVars, restVars>>

\* The declared type another component gives a parameter of that name.
ForeignType(name) == "const double* " \o name

\* Another component registers a kernel parameter under a name the streaming
\* components use, with a declared type of its own.
CallKernelHook ==
    /\ ~Failed(gen)
    /\ \E name \in {"f_next", "no_stream_mask"} :
           gen' = kernel_hook(gen, name, ForeignType(name), name \o ".data()")
    /\ trace' = <<>>
    /\ UNCHANGED <<streaming, stencilD, boundaries, outputs, kernelVars, wrapVars, restVars>>

\* The same for a launcher parameter.
CallLauncherHook ==
    /\ ~Failed(gen)
    /\ \E name \in {"f_next", "no_stream_mask"} :
           gen' = launcher_hook(gen, name, ForeignType(name), name, "simulation." \o name)
    /\ trace' = <<>>
    /\ UNCHANGED <<streaming, stencilD, boundaries, outputs, kernelVars, wrapVars, restVars>>

Next ==
    \/ Generate
    \/ CallGenerateNoStreamMask
    \/ CallGenerateFNext
    \/ CallGenerateReadWrite
    \/ CallGenerateOffset
    \/ CallKernelHook
    \/ CallLauncherHook

Spec == Init /\ [][Next]_vars

\* The driver: generate() calls, and parameters other components register
\* on the object between them.
DriverNext ==
    \/ Generate
    \/ CallKernelHook
    \/ CallLauncherHook

DriverSpec == DriverInit /\ [][DriverNext]_vars

\* ------------------------------------------------------ ensure_empty_dir
\* The file system below the driver's directory: path |-> "file" or "dir".
\* A path is the sequence of its names; generate_dir is 'cuda_native'.
MaxEntries == 3

EntryNames == <<"a", "b">>

generate_dir == <<"cuda_native">>

EmptyFS == <<>>

\* The trees rooted at p with at most n entries, p included.
RECURSIVE Subtrees(_, _)
Subtrees(p, n) ==
    IF n = 0 THEN {}
    ELSE {p :> "file"}
         \cup UNION { { (p :> "dir") @@ fa @@ fb :
                            fa \in {EmptyFS} \cup Subtrees(Append(p, EntryNames[1]), k),
                            fb \in {EmptyFS} \cup Subtrees(Append(p, EntryNames[2]), n - 1 - k) } :
                      k \in 0..(n - 1) }

\* path may be missing, a file, or a directory with at most MaxEntries
\* entries below it.
FileSystems == {EmptyFS} \cup Subtrees(generate_dir, MaxEntries + 1)

exists(f, path) == path \in DOMAIN f

isdir(f, path) == path \in DOMAIN f /\ f[path] = "dir"

listdir(f, path) ==
    { q[Len(q)] : q \in { r \in DOMAIN f : /\ Len(r) = Len(path) + 1
                                           /\ SubSeq(r, 1, Len(path)) = path } }

join(path, filename) == Append(path, filename)

RemoveEntry(f, path) == [q \in DOMAIN f \ {path} |-> f[q]]

mkdir(f, path) == (path :> "dir") @@ f

\* os.rmdir refuses a directory that is not empty.
CanRmdir(f, path) == isdir(f, path) /\ listdir(f, path) = {}

\* ensure_empty_dir as a function of the file system: the file system it
\* leaves, and the error it raised if any.
RECURSIVE EnsureLoop(_, _, _)
RECURSIVE ensure_empty_dir(_, _)
EnsureLoop(r, path, todo) ==
    IF todo = {} \/ r.error # NoError THEN r
    ELSE LET filename == CHOOSE n \in todo : TRUE
             filepath == join(path, filename)
         IN  IF isdir(r.fs, filepath)
             THEN LET sub == ensure_empty_dir(r.fs, filepath) IN
                  IF sub.error # NoError THEN sub
                  ELSE IF ~CanRmdir(sub.fs, filepath)
                       THEN [fs |-> sub.fs, error |-> "OSError"]
                       ELSE EnsureLoop([fs |-> RemoveEntry(sub.fs, filepath), error |-> NoError],
                                       path, todo \ {filename})
             ELSE EnsureLoop([fs |-> RemoveEntry(r.fs, filepath), error |-> NoError],
                             path, todo \ {filename})

ensure_empty_dir(f, path) ==
    IF exists(f, path)
    THEN IF ~isdir(f, path)
         THEN [fs |-> f, error |-> "NotADirectoryError"]
         ELSE EnsureLoop([fs |-> f, error |-> NoError], path, listdir(f, path))
    ELSE [fs |-> mkdir(f, path), error |-> NoError]

\* ------------------------------------------------------------ EnsureSpec
\* ensure_empty_dir(generate_dir) statement by statement.  A frame of the
\* call stack: the path, the names of listdir(path) not yet visited, the
\* name being visited, and where the call stands.
Frame(path) == [path |-> path, at |-> "exists", todo |-> {}, filename |-> ""]

Returned == stack = <<>>

Raised == stack # <<>> /\ Head(stack).at = "raised"

EnsureIdle ==
    /\ GenIdle
    /\ KernelIdle
    /\ WrapIdle
    /\ outlet = [pc |-> "idle"]
    /\ mt = [pc |-> "idle"]

EnsureInit ==
    /\ MoreIdle
    /\ fs \in FileSystems
    /\ stack = <<Frame(generate_dir)>>
    /\ main = [pc |-> "ensure_empty_dir", start |-> fs]
    /\ EnsureIdle

Top == Head(stack)

SetTop(frame) == <<frame>> \o Tail(stack)

\* if exists(path): for filename in listdir(path) ... else: mkdir(path)
EnsureExists ==
    /\ stack # <<>>
    /\ Top.at = "exists"
    /\ IF exists(fs, Top.path)
       THEN IF isdir(fs, Top.path)
            THEN /\ stack' = SetTop([Top EXCEPT !.at = "loop",
                                               !.todo = listdir(fs, Top.path)])
                 /\ fs' = fs
            ELSE /\ stack' = SetTop([Top EXCEPT !.at = "raised",
                                               !.filename = "NotADirectoryError"])
                 /\ fs' = fs
       ELSE /\ fs' = mkdir(fs, Top.path)
            /\ stack' = Tail(stack)
    /\ UNCHANGED <<genVars, kernelVars, wrapVars, bounce, reporter, main, outlet, mt>>

\* The next filename is no directory: remove(filepath).
EnsureRemove ==
    /\ stack # <<>>
    /\ Top.at = "loop"
    /\ \E filename \in Top.todo :
         LET filepath == join(Top.path, filename) IN
           /\ ~isdir(fs, filepath)
           /\ fs' = RemoveEntry(fs, filepath)
           /\ stack' = SetTop([Top EXCEPT !.todo = @ \ {filename}])
    /\ UNCHANGED <<genVars, kernelVars, wrapVars, bounce, reporter, main, outlet, mt>>

\* The next filename is a directory: ensure_empty_dir(filepath) is called.
EnsureDescend ==
    /\ stack # <<>>
    /\ Top.at = "loop"
    /\ \E filename \in Top.todo :
         LET filepath == join(Top.path, filename) IN
           /\ isdir(fs, filepath)
           /\ stack' = <<Frame(filepath)>>
                       \o SetTop([Top EXCEPT !.at = "rmdir", !.filename = filename])
    /\ fs' = fs
    /\ UNCHANGED <<genVars, kernelVars, wrapVars, bounce, reporter, main, outlet, mt>>

\* The recursive call has returned, and the directory is left where it is.
EnsureRmdir_Kept ==
    /\ stack # <<>>
    /\ Top.at = "rmdir"
    /\ fs' = fs
    /\ stack' = SetTop([Top EXCEPT !.at = "loop", !.todo = @ \ {Top.filename},
                                   !.filename = ""])
    /\ UNCHANGED <<genVars, kernelVars, wrapVars, bounce, reporter, main, outlet, mt>>

\* The recursive call has returned: rmdir(filepath).
EnsureRmdir ==
    /\ stack # <<>>
    /\ Top.at = "rmdir"
    /\ LET filepath == join(Top.path, Top.filename) IN
         IF CanRmdir(fs, filepath)
         THEN /\ fs' = RemoveEntry(fs, filepath)
              /\ stack' = SetTop([Top EXCEPT !.at = "loop", !.todo = @ \ {Top.filename},
                                             !.filename = ""])
         ELSE /\ fs' = fs
              /\ stack' = SetTop([Top EXCEPT !.at = "raised", !.filename = "OSError"])
    /\ UNCHANGED <<genVars, kernelVars, wrapVars, bounce, reporter, main, outlet, mt>>

\* listdir(path) is exhausted: the call returns.
EnsureReturn ==
    /\ stack # <<>>
    /\ Top.at = "loop"
    /\ Top.todo = {}
    /\ stack' = Tail(stack)
    /\ fs' = fs
    /\ UNCHANGED <<genVars, kernelVars, wrapVars, bounce, reporter, main, outlet, mt>>

EnsureNext ==
    \/ EnsureExists
    \/ EnsureRemove
    \/ EnsureDescend
    \/ EnsureRmdir
    \/ EnsureReturn

EnsureSpec == EnsureInit /\ [][EnsureNext]_vars

\* A running call is never suspended for ever.
FairEnsureSpec == EnsureSpec /\ WF_vars(EnsureNext)

\* -------------------------------------------------------------- MainSpec
\* main(verbose, install) of the example driver.  main.calls is the sequence
\* of the calls made so far, each with its argument; main.structured_code
\* holds the value bound to the variable, if any.
\* What main() may find at generate_dir: nothing, a file, or a directory
\* tree of up to MaxEntries entries, the directory itself included.
MainFileSystems == {EmptyFS} \cup Subtrees(generate_dir, MaxEntries)

MainInit ==
    /\ MoreIdle
    /\ gen = EmptyGenerator
    /\ streaming \in StreamingConfigs
    /\ stencilD = 2
    /\ boundaries \in BoundaryLists
    /\ outputs = <<>>
    /\ trace = <<>>
    /\ fs \in MainFileSystems
    /\ stack = <<>>
    /\ \E verbose \in BOOLEAN, install \in BOOLEAN :
           main = [pc |-> "ensure_empty_dir", verbose |-> verbose, install |-> install,
                   structured_code |-> <<>>, calls |-> <<>>, start |-> fs]
    /\ KernelIdle
    /\ WrapIdle
    /\ outlet = [pc |-> "idle"]
    /\ mt = [pc |-> "idle"]

Called(name, arg) == Append(main.calls, <<name, arg>>)

\* ensure_empty_dir(generate_dir)
MainEnsureEmptyDir ==
    /\ main.pc = "ensure_empty_dir"
    /\ LET r == ensure_empty_dir(fs, generate_dir) IN
         /\ fs' = r.fs
         /\ main' = [main EXCEPT !.pc = IF r.error = NoError THEN "generate" ELSE "raised",
                                 !.calls = Called("ensure_empty_dir", generate_dir)]
    /\ UNCHANGED <<genVars, kernelVars, wrapVars, bounce, reporter, stack, outlet, mt>>

\* A variant of the next statement that keeps what the Generator holds when
\* the run has failed.
MainGenerate_KeepPartial ==
    /\ main.pc = "generate"
    /\ LET g == GenerateRun(gen, streaming, stencilD, boundaries) IN
         /\ gen' = Fresh(g)
         /\ trace' = g.log
         /\ main' = [main EXCEPT !.pc = "format",
                                 !.structured_code = <<BufferMapping(g)>>,
                                 !.calls = Called("generate", <<>>)]
    /\ UNCHANGED <<streaming, stencilD, boundaries, outputs, kernelVars, wrapVars, bounce, reporter,
                   fs, stack, outlet, mt>>

\* structured_code = generator.generate(): an error raised in it leaves
\* main() at this statement, with structured_code unbound.
MainGenerate ==
    /\ main.pc = "generate"
    /\ LET g == GenerateRun(gen, streaming, stencilD, boundaries) IN
         /\ gen' = Fresh(g)
         /\ trace' = g.log
         /\ main' = IF Failed(g)
                    THEN [main EXCEPT !.pc = "raised", !.calls = Called("generate", <<>>)]
                    ELSE [main EXCEPT !.pc = "format",
                                      !.structured_code = <<GenerateResult(g).returned>>,
                                      !.calls = Called("generate", <<>>)]
    /\ UNCHANGED <<streaming, stencilD, boundaries, outputs, kernelVars, wrapVars, bounce, reporter,
                   fs, stack, outlet, mt>>

\* generator.format(structured_code, generate_dir)
MainFormat ==
    /\ main.pc = "format"
    /\ main' = [main EXCEPT !.pc = "verbose",
                            !.calls = Called("format", main.structured_code[1])]
    /\ UNCHANGED <<genVars, kernelVars, wrapVars, bounce, reporter, fs, stack, outlet, mt>>

\* if verbose: print the buffers
MainVerbose ==
    /\ main.pc = "verbose"
    /\ main' = [main EXCEPT !.pc = "install",
                            !.calls = IF main.verbose
                                      THEN Called("print", main.structured_code[1])
                                      ELSE @]
    /\ UNCHANGED <<genVars, kernelVars, wrapVars, bounce, reporter, fs, stack, outlet, mt>>

\* A variant of the last statement without its condition.
MainInstall_Always ==
    /\ main.pc = "install"
    /\ main' = [main EXCEPT !.pc = "done", !.calls = Called("install", generate_dir)]
    /\ UNCHANGED <<genVars, kernelVars, wrapVars, bounce, reporter, fs, stack, outlet, mt>>

\* if install: generator.install(generate_dir)
MainInstall ==
    /\ main.pc = "install"
    /\ main' = [main EXCEPT !.pc = "done",
                            !.calls = IF main.install
                                      THEN Called("install", generate_dir)
                                      ELSE @]
    /\ UNCHANGED <<genVars, kernelVars, wrapVars, bounce, reporter, fs, stack, outlet, mt>>

MainNext ==
    \/ MainEnsureEmptyDir
    \/ MainGenerate
    \/ MainFormat
    \/ MainVerbose
    \/ MainInstall

MainSpec == MainInit /\ [][MainNext]_vars

\* ---------------------------------------------------- AntiBounceBackOutlet
\* Direction entries are numbers that need not be integers; an entry is kept
\* as a count of halves, so that One stands for the number 1.
One == 2
MaxDirection == 4
DirectionEntries == {-2 * One, -One, -1, 0, 1, One, 2 * One}

\* The values passed as direction: lists, and sequences that are not lists
\* (tuples), of every length up to MaxDirection.
Directions ==
    [list : BOOLEAN, v : UNION {[1..n -> DirectionEntries] : n \in 0..MaxDirection}]

RECURSIVE SumSeq(_)
SumSeq(v) == IF v = <<>> THEN 0 ELSE Head(v) + SumSeq(Tail(v))

Abs(x) == IF x < 0 THEN -x ELSE x

In(x, v) == \E k \in 1..Len(v) : v[k] = x

\* The condition of the assert statement, evaluated left to right.
DirectionAssertion(direction) ==
    /\ direction.list
    /\ Len(direction.v) \in {1, 2, 3}
    /\ Abs(SumSeq(direction.v)) = One
    /\ \A k \in 1..Len(direction.v) : Abs(direction.v[k]) <= One
    /\ \E k \in 1..Len(direction.v) : Abs(direction.v[k]) = One
    /\ In(One, direction.v) # In(-One, direction.v)

\* np.matmul(e, direction)[i], in halves
Projection(e, v, i) == SumSeq([k \in 1..Len(v) |-> e[i + 1][k] * v[k]])

\* A variant of the selection that takes every velocity with a nonzero
\* projection.
OutletVelocities_Nonzero(e, v) == {i \in 0..(Len(e) - 1) : Projection(e, v, i) # 0}

\* np.argwhere(np.matmul(e, direction) == 1), as a set of 0-based indices
OutletVelocities(e, v) == {i \in 0..(Len(e) - 1) : Projection(e, v, i) = One}

\* stencil.opposite: the index of the velocity -e[i]
Opposite(e) ==
    [i \in 0..(Len(e) - 1) |->
        CHOOSE j \in 0..(Len(e) - 1) : \A k \in 1..Len(e[1]) : e[j + 1][k] = -e[i + 1][k]]

RECURSIVE OutletIndex(_, _, _, _)
\* the loop that builds self.index (zero, plus, minus = ":", "-1", "0") and
\* self.neighbour (":", "-2", "1")
OutletIndex(v, zero, plus, minus) ==
    IF v = <<>> THEN <<>>
    ELSE (IF Head(v) = 0 THEN <<zero>>
          ELSE IF Head(v) = One THEN <<plus>>
          ELSE IF Head(v) = -One THEN <<minus>>
          ELSE <<>>) \o OutletIndex(Tail(v), zero, plus, minus)

Unset == [lattice |-> FALSE, velocities |-> {}, index |-> <<>>, neighbour |-> <<>>,
          dims |-> ""]

\* AntiBounceBackOutlet.__init__(lattice, direction) on a lattice whose
\* stencil has the velocity table e: the error raised, if any, and the
\* fields of self that were set.
AntiBounceBackOutlet_init(e, direction) ==
    IF ~DirectionAssertion(direction)
    THEN [error |-> "AssertionError", self |-> Unset]
    ELSE IF Len(direction.v) # Len(e[1]) \/ OutletVelocities(e, direction.v) = {}
    THEN [error |-> "ValueError", self |-> [Unset EXCEPT !.lattice = TRUE]]
    ELSE [error |-> NoError,
          self |-> [lattice |-> TRUE,
                    velocities |-> OutletVelocities(e, direction.v),
                    index |-> OutletIndex(direction.v, ":", "-1", "0"),
                    neighbour |-> OutletIndex(direction.v, ":", "-2", "1"),
                    dims |-> IF Len(direction.v) = 3 THEN "dc, cxy -> dxy"
                             ELSE IF Len(direction.v) = 2 THEN "dc, cx -> dx"
                             ELSE "dc, c -> dc"]]

\* -------------------------------------------------------------- OutletSpec
OutletInit ==
    /\ MoreIdle
    /\ GenIdle
    /\ KernelIdle
    /\ WrapIdle
    /\ main = [pc |-> "idle"]
    /\ fs = <<>>
    /\ stack = <<>>
    /\ mt = [pc |-> "idle"]
    /\ \E direction \in Directions, d \in 1..3 :
           outlet = [pc |-> "new", D |-> d, direction |-> direction,
                     error |-> NoError, self |-> Unset, written |-> {}]

\* boundary = AntiBounceBackOutlet(lattice, direction)
OutletConstruct ==
    /\ outlet.pc = "new"
    /\ LET r == AntiBounceBackOutlet_init(StencilE(outlet.D), outlet.direction) IN
         outlet' = [outlet EXCEPT !.pc = IF r.error = NoError THEN "constructed" ELSE "raised",
                                  !.error = r.error,
                                  !.self = r.self]
    /\ UNCHANGED <<genVars, kernelVars, wrapVars, bounce, reporter, main, fs, stack, mt>>

\* boundary(f): the populations assigned are those at the opposites of the
\* selected velocities
OutletCall ==
    /\ outlet.pc = "constructed"
    /\ outlet' = [outlet EXCEPT !.pc = "called",
                                !.written = {Opposite(StencilE(outlet.D))[i] :
                                                 i \in outlet.self.velocities}]
    /\ UNCHANGED <<genVars, kernelVars, wrapVars, bounce, reporter, main, fs, stack, mt>>

OutletNext ==
    \/ OutletConstruct
    \/ OutletCall

OutletSpec == OutletInit /\ [][OutletNext]_vars

\* ------------------------------------------------------ moment transforms
\* The class attributes matrix and inverse.  Entries are rational; a matrix
\* is kept as integer numerators over one common denominator.
D1Q3Transform_matrix ==
    [den |-> 1,
     num |-> <<<<1, 1, 1>>,
             <<0, 1, -1>>,
             <<0, 1, 1>>>>]

D1Q3Transform_inverse ==
    [den |-> 2,
     num |-> <<<<2, 0, -2>>,
             <<0, 1, 1>>,
             <<0, -1, 1>>>>]

D2Q9Dellar_matrix ==
    [den |-> 2,
     num |-> <<<<2, 2, 2, 2, 2, 2, 2, 2, 2>>,
             <<0, 2, 0, -2, 0, 2, -2, -2, 2>>,
             <<0, 0, 2, 0, -2, 2, 2, -2, -2>>,
             <<-3, 6, -3, 6, -3, 6, 6, 6, 6>>,
             <<0, 0, 0, 0, 0, 18, -18, 18, -18>>,
             <<-3, -3, 6, -3, 6, 6, 6, 6, 6>>,
             <<2, -4, -4, -4, -4, 8, 8, 8, 8>>,
             <<0, -4, 0, 4, 0, 8, -8, -8, 8>>,
             <<0, 0, -4, 0, 4, 8, 8, -8, -8>>>>]

D2Q9Dellar_inverse ==
    [den |-> 216,
     num |-> <<<<96, 0, 0, -32, 0, -32, 24, 0, 0>>,
             <<24, 72, 0, 16, 0, -8, -12, -18, 0>>,
             <<24, 0, 72, -8, 0, 16, -12, 0, -18>>,
             <<24, -72, 0, 16, 0, -8, -12, 18, 0>>,
             <<24, 0, -72, -8, 0, 16, -12, 0, 18>>,
             <<6, 18, 18, 4, 6, 4, 6, 9, 9>>,
             <<6, -18, 18, 4, -6, 4, 6, -9, 9>>,
             <<6, -18, -18, 4, 6, 4, 6, -9, -9>>,
             <<6, 18, -18, 4, -6, 4, 6, 9, -9>>>>]

D2Q9Lallemand_matrix ==
    [den |-> 1,
     num |-> <<<<1, 1, 1, 1, 1, 1, 1, 1, 1>>,
             <<0, 1, 0, -1, 0, 1, -1, -1, 1>>,
             <<0, 0, 1, 0, -1, 1, 1, -1, -1>>,
             <<0, 1, -1, 1, -1, 0, 0, 0, 0>>,
             <<0, 0, 0, 0, 0, 1, -1, 1, -1>>,
             <<-4, -1, -1, -1, -1, 2, 2, 2, 2>>,
             <<0, -2, 0, 2, 0, 1, -1, -1, 1>>,
             <<0, 0, -2, 0, 2, 1, 1, -1, -1>>,
             <<4, -2, -2, -2, -2, 1, 1, 1, 1>>>>]

D2Q9Lallemand_inverse ==
    [den |-> 36,
     num |-> <<<<4, 0, 0, 0, 0, -4, 0, 0, 4>>,
             <<4, 6, 0, 9, 0, -1, -6, 0, -2>>,
             <<4, 0, 6, -9, 0, -1, 0, -6, -2>>,
             <<4, -6, 0, 9, 0, -1, 6, 0, -2>>,
             <<4, 0, -6, -9, 0, -1, 0, 6, -2>>,
             <<4, 6, 6, 0, 9, 2, 3, 3, 1>>,
             <<4, -6, 6, 0, -9, 2, -3, 3, 1>>,
             <<4, -6, -6, 0, 9, 2, -3, -3, 1>>,
             <<4, 6, -6, 0, -9, 2, 3, -3, 1>>>>]

MaxPopulation == 1

\* The transform classes, each with the Q of the stencils it supports; the
\* base class Transform accepts every lattice.
Transforms ==
    {[class |-> "Transform", Q |-> 3], [class |-> "Transform", Q |-> 9],
     [class |-> "D1Q3Transform", Q |-> 3],
     [class |-> "D2Q9Dellar", Q |-> 9], [class |-> "D2Q9Lallemand", Q |-> 9]}

\* lattice.mv(M, v): the matrix-vector product, on rationals
mv(M, v) ==
    [den |-> M.den * v.den,
     num |-> [i \in 1..Len(M.num) |->
                 SumSeq([j \in 1..Len(v.num) |-> M.num[i][j] * v.num[j]])]]

transform(t, f) ==
    IF t.class = "Transform" THEN f
    ELSE IF t.class = "D1Q3Transform" THEN mv(D1Q3Transform_matrix, f)
    ELSE IF t.class = "D2Q9Dellar" THEN mv(D2Q9Dellar_matrix, f)
    ELSE mv(D2Q9Lallemand_matrix, f)

\* A variant that applies the class's matrix where the inverse belongs.
inverse_transform_ByMatrix(t, m) == transform(t, m)

inverse_transform(t, m) ==
    IF t.class = "Transform" THEN m
    ELSE IF t.class = "D1Q3Transform" THEN mv(D1Q3Transform_inverse, m)
    ELSE IF t.class = "D2Q9Dellar" THEN mv(D2Q9Dellar_inverse, m)
    ELSE mv(D2Q9Lallemand_inverse, m)

\* -------------------------------------------------------------- MomentSpec
\* test_inverse_transform: a distribution f at one cell is transformed and
\* transformed back.
MomentInit ==
    /\ MoreIdle
    /\ GenIdle
    /\ KernelIdle
    /\ WrapIdle
    /\ main = [pc |-> "idle"]
    /\ fs = <<>>
    /\ stack = <<>>
    /\ outlet = [pc |-> "idle"]
    /\ \E t \in Transforms :
         \E f \in [1..t.Q -> 0..MaxPopulation] :
           mt = [pc |-> "f", transform |-> t, f |-> [den |-> 1, num |-> f],
                 m |-> [den |-> 1, num |-> <<>>],
                 retransformed |-> [den |-> 1, num |-> <<>>]]

MomentTransform ==
    /\ mt.pc = "f"
    /\ mt' = [mt EXCEPT !.pc = "m", !.m = transform(mt.transform, mt.f)]
    /\ UNCHANGED <<genVars, kernelVars, wrapVars, bounce, reporter, main, fs, stack, outlet>>

MomentInverse ==
    /\ mt.pc = "m"
    /\ mt' = [mt EXCEPT !.pc = "retransformed",
                        !.retransformed = inverse_transform(mt.transform, mt.m)]
    /\ UNCHANGED <<genVars, kernelVars, wrapVars, bounce, reporter, main, fs, stack, outlet>>

MomentNext ==
    \/ MomentTransform
    \/ MomentInverse

MomentSpec == MomentInit /\ [][MomentNext]_vars

\* ------------------------------------------- moments: names and tensors
MaxKey == 2
MaxPower == 1
MaxBatch == 3

\* self.names of a transform of that class
TransformNames(t) ==
    IF t.class = "D1Q3Transform" THEN <<"rho", "j", "e">>
    ELSE IF t.class = "D2Q9Dellar"
    THEN <<"rho", "jx", "jy", "Pi_xx", "Pi_xy", "PI_yy", "N", "Jx", "Jy">>
    ELSE IF t.class = "D2Q9Lallemand"
    THEN <<"rho", "jx", "jy", "pxx", "pxy", "e", "qx", "qy", "eps">>
    ELSE [i \in 1..t.Q |-> "m" \o ToString(i - 1)]

\* The names asked for: names of the transforms, and names of none.
KeyNames == {"rho", "jx", "jy", "jz", "j", "Jx", "m1"}

\* The keys of transform[key]: a tuple of names, a single name (a sequence
\* of one) or a list of names.
Keys ==
    [kind : {"tuple", "list"}, v : UNION {[1..n -> KeyNames] : n \in 0..MaxKey}]
        \cup [kind : {"str"}, v : [1..1 -> KeyNames]]

\* A variant of list.index that counts positions from 1.
list_index_FromOne(names, x) ==
    IF \E k \in 1..Len(names) : names[k] = x
    THEN [error |-> NoError,
          value |-> CHOOSE k \in 1..Len(names) :
                        names[k] = x /\ \A j \in 1..(k - 1) : names[j] # x]
    ELSE [error |-> "ValueError", value |-> 0]

\* names.index(x): the 0-based position of the first x, or ValueError
list_index(names, x) ==
    IF \E k \in 1..Len(names) : names[k] = x
    THEN [error |-> NoError,
          value |-> (CHOOSE k \in 1..Len(names) :
                        names[k] = x /\ \A j \in 1..(k - 1) : names[j] # x) - 1]
    ELSE [error |-> "ValueError", value |-> 0]

\* Transform.__getitem__(moment_names).  A key that is not a tuple is
\* wrapped in a list of one; a wrapped list is then looked up as one item,
\* which no name equals.
Transform_getitem(t, key) ==
    LET names == TransformNames(t)
        found == [k \in 1..Len(key.v) |-> list_index(names, key.v[k])]
    IN  IF key.kind = "list"
        THEN [error |-> "ValueError", value |-> <<>>]
        ELSE IF \E k \in 1..Len(key.v) : found[k].error # NoError
        THEN [error |-> "ValueError", value |-> <<>>]
        ELSE [error |-> NoError, value |-> [k \in 1..Len(key.v) |-> found[k].value]]

\* A variant of the power that gives 0 for every power of 0.
RECURSIVE Pow_ZeroIsZero(_, _)
Pow_ZeroIsZero(base, k) ==
    IF base = 0 THEN 0 ELSE IF k = 0 THEN 1 ELSE base * Pow_ZeroIsZero(base, k - 1)

\* base ** k on integers, with 0 ** 0 = 1
RECURSIVE Pow(_, _)
Pow(base, k) == IF k = 0 THEN 1 ELSE base * Pow(base, k - 1)

RECURSIVE Prod(_)
Prod(v) == IF v = <<>> THEN 1 ELSE Head(v) * Prod(Tail(v))

\* A variant that adds the powers where the product belongs.
moment_tensor_Sum(e, multiindex) ==
    LET row(m) == [q \in 1..Len(e) |-> SumSeq([a \in 1..Len(m) |-> Pow(e[q][a], m[a])])]
    IN  IF multiindex.batch
        THEN [batch |-> TRUE, v |-> [n \in 1..Len(multiindex.v) |-> row(multiindex.v[n])]]
        ELSE [batch |-> FALSE, v |-> row(multiindex.v)]

\* moment_tensor(e, multiindex): multiindex is one row (shape (D,)) or a
\* batch of rows (shape (n, D)); the result has shape (Q,) or (n, Q).
moment_tensor(e, multiindex) ==
    LET row(m) == [q \in 1..Len(e) |-> Prod([a \in 1..Len(m) |-> Pow(e[q][a], m[a])])]
    IN  IF multiindex.batch
        THEN [batch |-> TRUE, v |-> [n \in 1..Len(multiindex.v) |-> row(multiindex.v[n])]]
        ELSE [batch |-> FALSE, v |-> row(multiindex.v)]

\* The multiindices of total order up to MaxPower, singly and in batches.
Multiindices(d) ==
    LET rows == {m \in [1..d -> 0..MaxPower] : SumSeq(m) <= MaxPower}
    IN  [batch : {FALSE}, v : rows]
            \cup [batch : {TRUE}, v : UNION {[1..n -> rows] : n \in 1..MaxBatch}]

StencilNames == {"D1Q3", "D2Q5", "D2Q9", "D3Q19", "D3Q27"}

\* A variant that answers every other stencil with the D2Q9 default.
get_default_moment_transform_NoRaise(stencil) ==
    IF stencil = "D1Q3" THEN [error |-> NoError, class |-> "D1Q3Transform"]
    ELSE [error |-> NoError, class |-> "D2Q9Lallemand"]

get_default_moment_transform(stencil) ==
    IF stencil = "D1Q3" THEN [error |-> NoError, class |-> "D1Q3Transform"]
    ELSE IF stencil = "D2Q9" THEN [error |-> NoError, class |-> "D2Q9Lallemand"]
    ELSE [error |-> "LettuceException", class |-> ""]

\* ------------------------------------------------------------- MomentsSpec
\* One call of Transform.__getitem__, of moment_tensor or of
\* get_default_moment_transform, on arguments of every modelled shape.
MomentsInit ==
    /\ MoreIdle
    /\ GenIdle
    /\ KernelIdle
    /\ WrapIdle
    /\ main = [pc |-> "idle"]
    /\ fs = <<>>
    /\ stack = <<>>
    /\ outlet = [pc |-> "idle"]
    /\ \/ \E t \in Transforms, key \in Keys :
            mt = [pc |-> "call", op |-> "__getitem__", transform |-> t, key |-> key]
       \/ \E d \in 1..3 :
            \E multiindex \in Multiindices(d) :
              mt = [pc |-> "call", op |-> "moment_tensor", d |-> d, multiindex |-> multiindex]
       \/ \E stencil \in StencilNames :
            mt = [pc |-> "call", op |-> "get_default_moment_transform", stencil |-> stencil]

GetItem ==
    /\ mt.pc = "call"
    /\ mt.op = "__getitem__"
    /\ LET r == Transform_getitem(mt.transform, mt.key) IN
         mt' = [pc |-> IF r.error = NoError THEN "returned" ELSE "raised",
                op |-> mt.op, transform |-> mt.transform, key |-> mt.key,
                error |-> r.error, value |-> r.value]
    /\ UNCHANGED <<genVars, kernelVars, wrapVars, bounce, reporter, main, fs, stack, outlet>>

MomentTensor ==
    /\ mt.pc = "call"
    /\ mt.op = "moment_tensor"
    /\ mt' = [pc |-> "returned", op |-> mt.op, d |-> mt.d, multiindex |-> mt.multiindex,
              value |-> moment_tensor(StencilE(mt.d), mt.multiindex)]
    /\ UNCHANGED <<genVars, kernelVars, wrapVars, bounce, reporter, main, fs, stack, outlet>>

GetDefault ==
    /\ mt.pc = "call"
    /\ mt.op = "get_default_moment_transform"
    /\ LET r == get_default_moment_transform(mt.stencil) IN
         mt' = [pc |-> IF r.error = NoError THEN "returned" ELSE "raised",
                op |-> mt.op, stencil |-> mt.stencil,
                error |-> r.error, class |-> r.class]
    /\ UNCHANGED <<genVars, kernelVars, wrapVars, bounce, reporter, main, fs, stack, outlet>>

MomentsNext ==
    \/ GetItem
    \/ MomentTensor
    \/ GetDefault

MomentsSpec == MomentsInit /\ [][MomentsNext]_vars


\* ================================================= BounceBackBoundary
\* bounce = [pc, dimension, mask, f, start, calls]: a boundary constructed
\* with a mask over the cells of a grid, the distribution f it was last
\* applied to (f[q][cell]), the distribution before the first application,
\* and the number of applications so far.
MaxCalls == 2

\* A variant that bounces every cell, masked or not.
BounceBackBoundary_call_Everywhere(self_mask, f, opposite) ==
    [q \in DOMAIN f |-> [c \in DOMAIN f[q] |-> f[opposite[q]][c]]]

\* BounceBackBoundary.__call__: torch.where(self.mask, f[opposite], f), the
\* mask broadcast over the directions.
BounceBackBoundary_call(self_mask, f, opposite) ==
    LET bounced == [q \in DOMAIN f |-> f[opposite[q]]] IN
    [q \in DOMAIN f |->
        [c \in DOMAIN f[q] |-> IF self_mask[c] THEN bounced[q][c] ELSE f[q][c]]]

\* A boundary constructed with any mask over a grid; the populations of the
\* distribution are pairwise different, counted from any first value, so that
\* each one can be told from the others wherever it ends up.
BounceInit ==
    /\ \E dimension \in {h \in Grids : CellCount(h) <= MaxCells} :
       \E mask \in [Cells(dimension) -> BOOLEAN] :
       \E first \in 0..MaxPopulation :
           LET f == [q \in 0..(StencilQ(Len(dimension)) - 1) |->
                        [c \in Cells(dimension) |-> first + Coord(q, c, dimension)]]
           IN  bounce = [pc |-> "ready", dimension |-> dimension, mask |-> mask,
                         f |-> f, start |-> f, calls |-> 0]
    /\ reporter = [pc |-> "idle"]
    /\ GenIdle
    /\ KernelIdle
    /\ WrapIdle
    /\ main = [pc |-> "idle"]
    /\ fs = <<>>
    /\ stack = <<>>
    /\ outlet = [pc |-> "idle"]
    /\ mt = [pc |-> "idle"]

\* f = boundary(f)
BounceCall ==
    /\ bounce.pc = "ready"
    /\ bounce.calls < MaxCalls
    /\ bounce' = [bounce EXCEPT
                      !.f = BounceBackBoundary_call(
                                bounce.mask, @, Opposite(StencilE(Len(bounce.dimension)))),
                      !.calls = @ + 1]
    /\ UNCHANGED <<genVars, kernelVars, wrapVars, reporter, main, fs, stack, outlet, mt>>

BounceNext == BounceCall

BounceSpec == BounceInit /\ [][BounceNext]_vars

\* ================================================= ObservableReporter
\* reporter = [pc, interval, out_is_list, out, evaluated, calls, raised]: the
\* reporter's interval and output (the list of entries, or the lines printed
\* to the stream), how often the observable was evaluated, and the calls
\* (i, t, what the observable gives for f) made so far.
MaxInterval == 2
MaxIndex == 3

\* The times the calls pass.
Times == {10, 11}

\* What the observable gives for a distribution, as a numpy array: a scalar,
\* a vector, or an array of two dimensions.
Observations ==
    {[shape |-> 0, data |-> 7],
     [shape |-> 1, data |-> <<7, 8>>],
     [shape |-> 2, data |-> << <<7>>, <<8>> >>]}

RECURSIVE Line(_)
\* print(*entry, file=out): the items, each as str gives it, with a blank
\* between them.
Line(entry) ==
    IF entry = <<>> THEN ""
    ELSE IF Len(entry) = 1 THEN ToString(entry[1])
    ELSE ToString(entry[1]) \o " " \o Line(Tail(entry))

\* A variant that records every call, whatever the interval.
ObservableReporter_call_EveryCall(self, i, t, observed) ==
    [self EXCEPT !.evaluated = @ + 1,
                 !.out = Append(@, <<i, t>> \o (IF observed.shape = 0 THEN <<observed.data>>
                                                ELSE observed.data))]

\* ObservableReporter.__call__(i, t, f), observed being self.observable(f)
ObservableReporter_call(self, i, t, observed) ==
    IF self.interval = 0
    THEN [self EXCEPT !.pc = "raised", !.raised = "ZeroDivisionError"]
    ELSE IF i % self.interval = 0
    THEN LET evaluated == [self EXCEPT !.evaluated = @ + 1] IN
         IF ~(observed.shape < 2)
         THEN [evaluated EXCEPT !.pc = "raised", !.raised = "AssertionError"]
         ELSE LET values == IF observed.shape = 0 THEN <<observed.data>> ELSE observed.data
                  entry == <<i, t>> \o values
              IN  IF self.out_is_list
                  THEN [evaluated EXCEPT !.out = Append(@, entry)]
                  ELSE [evaluated EXCEPT !.out = Append(@, Line(entry))]
    ELSE self

\* ObservableReporter(observable, interval, out): out=None gives a list, any
\* other out is the stream printed to.
ReporterInit ==
    /\ \E interval \in 0..MaxInterval : \E out_is_list \in BOOLEAN :
           reporter = [pc |-> "ready", interval |-> interval, out_is_list |-> out_is_list,
                       out |-> <<>>, evaluated |-> 0, calls |-> <<>>, raised |-> NoError]
    /\ bounce = [pc |-> "idle"]
    /\ GenIdle
    /\ KernelIdle
    /\ WrapIdle
    /\ main = [pc |-> "idle"]
    /\ fs = <<>>
    /\ stack = <<>>
    /\ outlet = [pc |-> "idle"]
    /\ mt = [pc |-> "idle"]

\* reporter(i, t, f)
ReporterCall ==
    /\ reporter.pc = "ready"
    /\ Len(reporter.calls) < MaxCalls
    /\ \E i \in 0..MaxIndex : \E t \in Times : \E observed \in Observations :
           reporter' = [ObservableReporter_call(reporter, i, t, observed)
                            EXCEPT !.calls = Append(@, [i |-> i, t |-> t, observed |-> observed])]
    /\ UNCHANGED <<genVars, kernelVars, wrapVars, bounce, main, fs, stack, outlet, mt>>

ReporterNext == ReporterCall

ReporterSpec == ReporterInit /\ [][ReporterNext]_vars
\* =================================================================== claims
Count(seq, x) == Cardinality({k \in 1..Len(seq) : seq[k] = x})

AllDone == \A c \in DOMAIN pc : pc[c] = "done"

\* ---------------------------------------------------------------------- C1
\* C1 (WrapSpec): every destination coordinate the write-back has computed
\* equals (index[a] + e[i][a]) mod dimension[a], so it lies in
\* [0, dimension[a]), and it is computed from that axis's index, direction
\* component and extent alone; the cell a standard-streaming thread writes to
\* is the vector of these coordinates.
C1_PeriodicWraparound ==
    wr.pc # "idle" =>
        /\ \A a \in 1..Len(wr.coord) :
               /\ wr.coord[a] = (wr.index[a] + StencilE(wr.d)[wr.i + 1][a]) % wr.dimension[a]
               /\ wr.coord[a] \in 0..(wr.dimension[a] - 1)
        /\ wr.pc \in {"store", "done"} =>
               wr.coord = StandardDestination(wr.index, wr.i, wr.dimension, FALSE, FALSE)

\* D2Q9, direction (-1,-1) at cell (0,0) of a 3 x 2 grid has gone to (2,1).
C1_Witness ==
    /\ wr.pc = "done"
    /\ wr.d = 2
    /\ wr.dimension = <<3, 2>>
    /\ wr.index = <<0, 0>>
    /\ D2Q9_e[wr.i + 1] = <<-1, -1>>
    /\ wr.coord = <<2, 1>>

\* ---------------------------------------------------------------------- C2
\* C2 (KernelSpec): with the mask enabled, once every thread of a launch has
\* finished, f_next at every masked cell c holds, for every direction q, the
\* value cell c itself held in f when the launch began.
C2_MaskedCellKeepsOwnValues ==
    (kcfg.kind = "standard" /\ kcfg.mask /\ AllDone) =>
        \A c \in DOMAIN pc :
            noStreamMask[MaskCoord(c, kcfg.dimension)] =>
                \A q \in 0..(StencilQ(kcfg.d) - 1) :
                    mem[simFNext][Coord(q, c, kcfg.dimension)]
                        = fStart[Coord(q, c, kcfg.dimension)]

\* ---------------------------------------------------------------------- C3
\* The launch run one thread after the other, in ascending cell order.
RECURSIVE SequentialLaunch(_, _, _, _, _)
SequentialLaunch(cfg, f, f_next, maskArray, n) ==
    IF n = 0 THEN <<f, f_next>>
    ELSE LET before == SequentialLaunch(cfg, f, f_next, maskArray, n - 1)
             c == CHOOSE c \in Cells(cfg.dimension) : MaskCoord(c, cfg.dimension) = n - 1
             regs == [i \in 0..(StencilQ(cfg.d) - 1) |-> before[1][Coord(i, c, cfg.dimension)]]
         IN  IF cfg.kind = "no"
             THEN <<WriteLoop(before[1], cfg, c, regs, maskArray[n - 1], StencilQ(cfg.d)),
                    before[2]>>
             ELSE <<before[1],
                    WriteLoop(before[2], cfg, c, regs, maskArray[n - 1], StencilQ(cfg.d))>>

\* C3 (KernelSpec): once every thread of a launch has finished, the written
\* buffer holds what it holds when the threads run one after the other in
\* ascending cell order, whatever order and interleaving they ran in.
C3_OrderIndependent ==
    AllDone =>
        LET seq == SequentialLaunch(kcfg, fStart, fNextStart, noStreamMask,
                                    CellCount(kcfg.dimension))
        IN  /\ mem[simF] = seq[1]
            /\ kcfg.kind = "standard" => mem[simFNext] = seq[2]

\* ---------------------------------------------------------------------- C7
\* C7 (KernelSpec): with StandardStreaming, after every step simulation.f
\* refers to the buffer the kernel of that step wrote (its f_next) and
\* simulation.f_next to the buffer it read (its f); the two are different
\* buffers, and until the next launch writes, the buffer that was read still
\* holds what it held, so references were exchanged and nothing was copied.
\* The post-launch buffer holds the swap statement exactly once.
C7_SwapAfterEachStep ==
    (kcfg.kind = "standard" /\ step > 0) =>
        /\ simF = lastLaunch.f_next
        /\ simFNext = lastLaunch.f
        /\ simF # simFNext
        /\ (\A c \in DOMAIN pc : pc[c] # "done") => mem[simFNext] = lastLaunch.read
        /\ Count(kcfg.after, SwapStatement) = 1

\* Two steps done: the references are back where they started.
C7_Witness ==
    /\ kcfg.kind = "standard"
    /\ step = 2
    /\ simF = 0
    /\ simFNext = 1
    /\ lastLaunch.f = 1

\* ---------------------------------------------------------------------- C4
\* Everything of the object but the trace of the call.
Content(g) == [g EXCEPT !.log = <<>>]

RegisterDeclarations == {"    scalar_t f_reg[q];", "  scalar_t f_reg[q];"}

\* C4 (Spec): the read/write fragment and the f_next fragment are in the
\* buffers at most once (one register declaration in the index buffer, one
\* write loop in the write buffer, one swap statement in the post-launch
\* buffer), and a generate_read_write or generate_f_next call that finds its
\* key registered leaves every buffer as it was.
C4_FragmentEmittedAtMostOnce ==
    /\ Cardinality({k \in 1..Len(gen.index_buffer) :
                        gen.index_buffer[k] \in RegisterDeclarations}) <= 1
    /\ Count(gen.write_buffer, "#pragma unroll") <= 1
    /\ Count(gen.python_wrapper_after_buffer, SwapStatement) <= 1
    /\ registered(gen, "read_write()") =>
           BufferMapping(generate_read_write(gen, streaming, stencilD)) = BufferMapping(gen)
    /\ registered(gen, "f_next") =>
           BufferMapping(generate_f_next(gen)) = BufferMapping(gen)

\* generate_read_write was called again after it had emitted: the call was
\* entered and appended nothing.
C4_Witness ==
    /\ trace = << <<"call", "generate_read_write">> >>
    /\ registered(gen, "read_write()")
    /\ registered(gen, "f_next")
    /\ gen.write_buffer # <<>>
    /\ Count(gen.python_wrapper_after_buffer, SwapStatement) = 1

\* ---------------------------------------------------------------------- C5
\* The generate_* calls a variant's read/write fragment depends on.
Dependencies(s) ==
    IF s.kind = "no"
    THEN {"generate_q", "generate_d", "generate_offset"}
    ELSE {"generate_f_next", "generate_offset", "generate_index", "generate_dimension",
          "generate_q", "generate_e"}
         \cup (IF s.mask THEN {"generate_no_stream_mask"} ELSE {})

FragmentAppends == { <<"append", "index_buffer">>, <<"append", "write_buffer">> }

\* C5 (Spec): in the trace of a call in which generate_read_write appended
\* to the index or the write buffer, every primitive the variant depends on
\* was requested after generate_read_write was entered and before the first
\* of these appends.
C5_DependenciesBeforeFragment ==
    (\E k \in DOMAIN trace : trace[k] \in FragmentAppends) =>
        \A dep \in Dependencies(streaming) :
            \E j \in DOMAIN trace :
                /\ trace[j] = <<"call", dep>>
                /\ \E r \in 1..(j - 1) : trace[r] = <<"call", "generate_read_write">>
                /\ \A k \in DOMAIN trace : trace[k] \in FragmentAppends => j < k

\* A masked StandardStreaming has just emitted its fragment in a direct call.
C5_Witness ==
    /\ streaming = [kind |-> "standard", mask |-> TRUE]
    /\ trace # <<>>
    /\ trace[1] = <<"call", "generate_read_write">>
    /\ trace[Len(trace)] = <<"append", "write_buffer">>

\* ---------------------------------------------------------------------- C6
HookCount(table, name) == Cardinality({k \in 1..Len(table) : table[k].name = name})

\* After a request, the parameter is in each slot table once, and where the
\* launcher parameter has the streaming component's type its assertion is in
\* the pre-launch buffer once.
DeclaredOnce(g, name, launcherType, assertion) ==
    /\ HookCount(g.kernel_hooks, name) = 1
    /\ HookCount(g.launcher_hooks, name) = 1
    /\ HookType(g.launcher_hooks, name) = launcherType =>
           Count(g.python_wrapper_before_buffer, assertion) = 1

TopLevelNames ==
    {"stencil", "equilibrium", "collision", "streaming"}
    \cup {"boundary_" \o ToString(k) : k \in 1..(MaxBoundaries + 1)}

TopLevelCalls(tr) ==
    LET calls == SelectSeq(tr, LAMBDA ev : ev[1] = "call" /\ ev[2] \in TopLevelNames)
    IN  [k \in 1..Len(calls) |-> calls[k][2]]

DependencyOrder(bs) ==
    <<"stencil", "equilibrium", "collision">>
    \o [k \in 1..Len(bs) |-> "boundary_" \o ToString(k)]
    \o <<"streaming">>

\* C9 (DriverSpec): the trace of a generate() call starts with the reset,
\* which happens once; the components' entry points follow in the order
\* stencil, equilibrium, collision, the boundaries in list order, streaming
\* (a failed run stops somewhere in this order); and what the run leaves in
\* the object is what it leaves in a fresh Generator, so the reset emptied
\* the buffers and the registry before any component contributed.
C9_ResetThenDependencyOrder ==
    trace # <<>> =>
        /\ trace[1] = <<"reset", "">>
        /\ Count(trace, <<"reset", "">>) = 1
        /\ LET top == TopLevelCalls(trace)
               order == DependencyOrder(boundaries)
           IN  /\ Len(top) <= Len(order)
               /\ top = SubSeq(order, 1, Len(top))
               /\ ~Failed(gen) => top = order
        /\ Content(gen)
               = Content(GenerateRun(EmptyGenerator, streaming, stencilD, boundaries))

\* A second generate() with two boundaries has just run to its end.
C9_Witness ==
    /\ Len(outputs) = 2
    /\ Len(boundaries) = 2
    /\ ~Failed(gen)
    /\ trace # <<>>
    /\ trace[Len(trace)] = <<"append", "write_buffer">>

\* --------------------------------------------------------------------- C10
UniqueNames(table) ==
    \A j, k \in 1..Len(table) : table[j].name = table[k].name => j = k

DeclaredTypes ==
    {NoStreamMaskLauncherType, NoStreamMaskKernelType, FNextLauncherType, FNextKernelType,
     BoundaryMaskType, ForeignType("f_next"), ForeignType("no_stream_mask")}

\* The type under which a call declared a name that was not declared before.
NewlyDeclared(before, after, name, type) ==
    (name \in HookNames(after) /\ name \notin HookNames(before)) =>
        HookType(after, name) = type

\* C10 (Spec): in each slot table a name is declared once; registering a
\* declared name with another type fails the run with a GenerationError and
\* leaves the table as it is; and whenever generate_no_stream_mask or
\* generate_f_next declare their parameter, it is with their fixed type.
C10_OneTypePerName ==
    /\ UniqueNames(gen.kernel_hooks)
    /\ UniqueNames(gen.launcher_hooks)
    /\ ~Failed(gen) =>
           \A type \in DeclaredTypes :
               /\ \A name \in HookNames(gen.kernel_hooks) :
                      type # HookType(gen.kernel_hooks, name) =>
                          LET r == kernel_hook(gen, name, type, "value") IN
                              /\ r.error = GenerationError
                              /\ r.kernel_hooks = gen.kernel_hooks
               /\ \A name \in HookNames(gen.launcher_hooks) :
                      type # HookType(gen.launcher_hooks, name) =>
                          LET r == launcher_hook(gen, name, type, name, "value") IN
                              /\ r.error = GenerationError
                              /\ r.launcher_hooks = gen.launcher_hooks
    /\ LET m == generate_no_stream_mask(gen)
           n == generate_f_next(gen)
       IN  /\ NewlyDeclared(gen.kernel_hooks, m.kernel_hooks,
                            "no_stream_mask", NoStreamMaskKernelType)
           /\ NewlyDeclared(gen.launcher_hooks, m.launcher_hooks,
                            "no_stream_mask", NoStreamMaskLauncherType)
           /\ NewlyDeclared(gen.kernel_hooks, n.kernel_hooks, "f_next", FNextKernelType)
           /\ NewlyDeclared(gen.launcher_hooks, n.launcher_hooks, "f_next", FNextLauncherType)

\* The streaming component declared f_next, and another component's
\* registration of f_next with its own type failed the run.
C10_Witness ==
    /\ gen.error = GenerationError
    /\ kernel_hooked(gen, "f_next")
    /\ HookType(gen.kernel_hooks, "f_next") = FNextKernelType
    /\ registered(gen, "f_next")

\* --------------------------------------------------------------------- C18
C18_Emptied ==
    /\ Returned =>
           /\ fs = (generate_dir :> "dir")
           /\ ensure_empty_dir(main.start, generate_dir)
                  = [fs |-> fs, error |-> NoError]
    /\ isdir(main.start, generate_dir) => isdir(fs, generate_dir)
    /\ Raised =>
           /\ exists(main.start, generate_dir) /\ ~isdir(main.start, generate_dir)
           /\ ensure_empty_dir(main.start, generate_dir).error = Head(stack).filename

\* C18 (FairEnsureSpec): once ensure_empty_dir(path) has returned, path is a
\* directory without entries and nothing else is left below it; a path that
\* was a directory is never removed on the way, a missing one has been
\* created; the only call that raises is the one whose path is a file; and
\* every call on a finite tree comes to its end.
C18_EnsureEmptyDir == [](C18_Emptied) /\ <>(Returned \/ Raised)

\* The call has returned for a tree with a file next to a subdirectory that
\* holds a file.
C18_Witness ==
    /\ Returned
    /\ main.pc = "ensure_empty_dir"
    /\ isdir(main.start, <<"cuda_native", "a">>)
    /\ exists(main.start, <<"cuda_native", "a", "b">>)
    /\ exists(main.start, <<"cuda_native", "b">>)
    /\ ~isdir(main.start, <<"cuda_native", "b">>)

\* --------------------------------------------------------------------- C11
CallNames == [k \in 1..Len(main.calls) |-> main.calls[k][1]]

\* C11 (MainSpec): when the generation run has raised an error, main() has
\* stopped at the generate() statement: no buffer mapping was bound to
\* structured_code and format() and install() were never called; and every
\* mapping handed to format() is the mapping of a run that came to its end.
C11_ErrorAbortsGenerate ==
    /\ Failed(gen) =>
           /\ main.pc = "raised"
           /\ main.structured_code = <<>>
           /\ Count(CallNames, "format") = 0
           /\ Count(CallNames, "install") = 0
    /\ \A k \in 1..Len(main.calls) :
           main.calls[k][1] = "format" =>
               /\ ~Failed(gen)
               /\ registered(gen, "read_write()")
               /\ main.calls[k][2] = BufferMapping(gen)

\* generate() has raised while the buffers were partly filled.
C11_Witness ==
    /\ main.pc = "raised"
    /\ Failed(gen)
    /\ gen.collision_buffer # <<>>
    /\ gen.write_buffer = <<>>
    /\ CallNames = <<"ensure_empty_dir", "generate">>

\* --------------------------------------------------------------------- C20
\* The position of the call of that name, 0 if it was not made.
CallIndex(name) ==
    IF Count(CallNames, name) = 0 THEN 0
    ELSE CHOOSE k \in 1..Len(main.calls) : main.calls[k][1] = name

\* C20 (MainSpec): every call of main() is made at most once;
\* ensure_empty_dir comes first and generate() finds the directory empty;
\* format() comes after generate() has returned and takes that call's
\* mapping; install() comes after format() and only when install was asked
\* for; a main() that came to its end has called format() once, and
\* install() if and only if asked to.
C20_DriverOrder ==
    /\ \A name \in {"ensure_empty_dir", "generate", "format", "print", "install"} :
           Count(CallNames, name) <= 1
    /\ CallIndex("generate") > 0 =>
           /\ CallIndex("ensure_empty_dir") = 1
           /\ CallIndex("generate") = 2
           /\ fs = (generate_dir :> "dir")
    /\ main.pc = "generate" => fs = (generate_dir :> "dir")
    /\ CallIndex("format") > 0 =>
           /\ CallIndex("format") = 3
           /\ main.structured_code = <<BufferMapping(gen)>>
           /\ main.calls[3][2] = main.structured_code[1]
    /\ CallIndex("install") > 0 =>
           /\ main.install
           /\ CallIndex("format") > 0
           /\ CallIndex("install") = Len(main.calls)
    /\ main.pc = "done" =>
           /\ CallIndex("format") > 0
           /\ main.install <=> CallIndex("install") > 0

\* main(verbose=True, install=True) came to its end on a directory that
\* held entries.
C20_Witness ==
    /\ main.pc = "done"
    /\ main.install
    /\ main.verbose
    /\ isdir(main.start, <<"cuda_native", "a">>)
    /\ CallNames = <<"ensure_empty_dir", "generate", "format", "print", "install">>

\* --------------------------------------------------------------------- C12
\* A list of length 1, 2 or 3 with one entry +1 or -1 and every other 0.
UnitDirection(direction) ==
    /\ direction.list
    /\ Len(direction.v) \in {1, 2, 3}
    /\ \E k \in 1..Len(direction.v) :
           /\ Abs(direction.v[k]) = One
           /\ \A j \in 1..Len(direction.v) : j # k => direction.v[j] = 0

\* C12 (OutletSpec): an AntiBounceBackOutlet is constructed only from a unit
\* direction: every other direction is rejected by the constructor.
C12_OnlyUnitDirections ==
    outlet.pc \in {"constructed", "called"} => UnitDirection(outlet.direction)

\* --------------------------------------------------------------------- C13
Negated(v) == [k \in 1..Len(v) |-> -v[k]]

\* C13 (OutletSpec): an outlet constructed from a unit direction d holds
\* exactly the indices i with e[i].d = 1, none of which is selected for -d,
\* and the populations its call assigns, at the opposites of its selection,
\* are exactly those selected for -d.
C13_OutletSelection ==
    (outlet.pc \in {"constructed", "called"} /\ UnitDirection(outlet.direction)) =>
        LET e == StencilE(outlet.D)
            d == outlet.direction.v
            back == OutletVelocities(e, Negated(d))
        IN  /\ outlet.self.velocities = {i \in 0..(Len(e) - 1) : Projection(e, d, i) = One}
            /\ outlet.self.velocities # {}
            /\ outlet.self.velocities \cap back = {}
            /\ \A i \in outlet.self.velocities : Opposite(e)[i] \in back
            /\ \A i \in 0..(Len(e) - 1) : Opposite(e)[Opposite(e)[i]] = i
            /\ outlet.pc = "called" => outlet.written = back

\* The outlet at the -y side of a D2Q9 lattice has been applied.
C13_Witness ==
    /\ outlet.pc = "called"
    /\ outlet.D = 2
    /\ outlet.direction = [list |-> TRUE, v |-> <<0, -One>>]
    /\ outlet.self.velocities = {4, 7, 8}
    /\ outlet.written = {2, 5, 6}

\* --------------------------------------------------------------------- C14
\* The two rational vectors are equal.
SameVector(a, b) ==
    /\ Len(a.num) = Len(b.num)
    /\ \A i \in 1..Len(a.num) : a.num[i] * b.den = b.num[i] * a.den

\* C14 (MomentSpec): a distribution that was transformed and transformed
\* back is the distribution the test started from; the distributions include
\* every unit vector, so that inverse times matrix is the identity.
C14_RoundTrip ==
    mt.pc = "retransformed" =>
        /\ SameVector(mt.retransformed, mt.f)
        /\ mt.m = transform(mt.transform, mt.f)

\* A D2Q9Dellar round trip whose moments are not integers.
C14_Witness ==
    /\ mt.pc = "retransformed"
    /\ mt.transform.class = "D2Q9Dellar"
    /\ mt.f.num = <<1, 0, 0, 0, 0, 0, 0, 0, 1>>
    /\ mt.m.den = 2
    /\ mt.m.num[4] = 3
    /\ mt.retransformed.den = 432

\* --------------------------------------------------------------------- C16
\* C16 (KernelSpec): with NoStreaming every thread holds in its registers
\* the values of its own cell's slots, direction by direction; f, which
\* started with every slot holding its own offset, holds that at every
\* moment of every launch, so that no thread has written a slot of another
\* cell or moved a value to a neighbour; the second buffer is never written
\* and the references are never exchanged; the generated module has no
\* f_next parameter and its post-launch buffer no swap statement.
C16_NoStreamingOwnCell ==
    kcfg.kind = "no" =>
        /\ \A c \in DOMAIN pc :
               pc[c] # "read" =>
                   f_reg[c] = [i \in 0..(StencilQ(kcfg.d) - 1) |-> Coord(i, c, kcfg.dimension)]
        /\ \A o \in DOMAIN mem[0] : mem[0][o] = o
        /\ \A o \in DOMAIN mem[1] : mem[1][o] = Stale
        /\ simF = 0
        /\ simFNext = 1
        /\ "f_next" \notin kcfg.hooks
        /\ Count(kcfg.after, SwapStatement) = 0

\* In the second launch on a 1 x 3 grid one thread has written, one has read
\* and one has not started.
C16_Witness ==
    /\ kcfg.kind = "no"
    /\ kcfg.dimension = <<1, 3>>
    /\ step = 1
    /\ pc[<<0, 0>>] = "done"
    /\ pc[<<0, 1>>] = "write"
    /\ pc[<<0, 2>>] = "read"

\* --------------------------------------------------------------------- C17
\* What the streaming created by that request contributes to a fresh
\* Generator for the stencil in use.
EmittedBy(class, flag) ==
    BufferMapping(generate_read_write(EmptyGenerator, create(class, flag), stencilD))

\* C17 (Spec): NativeNoStreaming.create gives the name 'no' whatever the
\* flag, NativeStandardStreaming.create gives 'standard' without and
\* 'standardM' with the mask; the streaming in use is one that create gives;
\* and every request that gives a streaming of the same name as the one in
\* use emits the same text, which is the text in the Generator once the
\* read/write fragment is registered.
C17_NameIdentifiesSpecialization ==
    /\ \A flag \in BOOLEAN :
           /\ StreamingName(create("NativeNoStreaming", flag)) = "no"
           /\ StreamingName(create("NativeStandardStreaming", flag))
                  = IF flag THEN "standardM" ELSE "standard"
    /\ \E class \in StreamingClasses, flag \in BOOLEAN : create(class, flag) = streaming
    /\ \A class \in StreamingClasses, flag \in BOOLEAN :
           StreamingName(create(class, flag)) = StreamingName(streaming) =>
               /\ EmittedBy(class, flag)
                      = BufferMapping(generate_read_write(EmptyGenerator, streaming, stencilD))
               /\ (registered(gen, "read_write()") /\ ~Failed(gen)) =>
                      /\ gen.index_buffer = EmittedBy(class, flag).index_buffer
                      /\ gen.write_buffer = EmittedBy(class, flag).write_buffer

\* The read/write fragment of a NativeNoStreaming is in the Generator; both
\* values of the flag create that streaming.
C17_Witness ==
    /\ streaming = create("NativeNoStreaming", TRUE)
    /\ streaming = create("NativeNoStreaming", FALSE)
    /\ registered(gen, "read_write()")
    /\ gen.write_buffer # <<>>
    /\ gen.write_buffer # EmittedBy("NativeStandardStreaming", FALSE).write_buffer

\* --------------------------------------------------------------------- C19
\* C19 (Spec): once the streaming component has contributed without error,
\* the pre-launch buffer holds the f_next assertion if the streaming is
\* StandardStreaming and the no_stream_mask assertion if the mask is
\* enabled, whatever was hooked before.
C19_AssertionsPresent ==
    (registered(gen, "read_write()") /\ ~Failed(gen)) =>
        /\ streaming.kind = "standard" =>
               In(FNextAssertion, gen.python_wrapper_before_buffer)
        /\ streaming.mask =>
               In(NoStreamMaskAssertion, gen.python_wrapper_before_buffer)

C21_GetItem ==
    (mt.pc \in {"returned", "raised"} /\ mt.op = "__getitem__" /\ mt.key.kind # "list") =>
        LET names == TransformNames(mt.transform)
            known == \A k \in 1..Len(mt.key.v) : In(mt.key.v[k], names)
        IN  /\ known <=> mt.pc = "returned"
            /\ mt.pc = "returned" =>
                   /\ Len(mt.value) = Len(mt.key.v)
                   /\ \A k \in 1..Len(mt.key.v) :
                          /\ mt.value[k] \in 0..(Len(names) - 1)
                          /\ names[mt.value[k] + 1] = mt.key.v[k]
            /\ mt.pc = "raised" => mt.value = <<>> /\ mt.error = "ValueError"
            /\ mt.key.kind = "str" /\ mt.pc = "returned" => Len(mt.value) = 1

\* D2Q9Lallemand: moments["jx", "jy"] has returned [1, 2].
C21_Witness ==
    /\ mt.pc = "returned"
    /\ mt.op = "__getitem__"
    /\ mt.transform.class = "D2Q9Lallemand"
    /\ mt.key = [kind |-> "tuple", v |-> <<"jx", "jy">>]
    /\ mt.value = <<1, 2>>

C23_DensityMoment ==
    (mt.pc = "returned" /\ mt.op = "moment_tensor") =>
        LET Q == StencilQ(mt.d)
            zero(m) == \A a \in 1..Len(m) : m[a] = 0
            ones(row) == \A q \in 1..Q : row[q] = 1
        IN  IF mt.multiindex.batch
            THEN /\ mt.value.batch
                 /\ Len(mt.value.v) = Len(mt.multiindex.v)
                 /\ \A n \in 1..Len(mt.value.v) :
                        /\ Len(mt.value.v[n]) = Q
                        /\ zero(mt.multiindex.v[n]) => ones(mt.value.v[n])
            ELSE /\ ~mt.value.batch
                 /\ Len(mt.value.v) = Q
                 /\ zero(mt.multiindex.v) => ones(mt.value.v)

\* D3Q27, a batch of one all-zero multiindex: a result of shape (1, 27).
C23_Witness ==
    /\ mt.pc = "returned"
    /\ mt.op = "moment_tensor"
    /\ mt.d = 3
    /\ mt.multiindex = [batch |-> TRUE, v |-> << <<0, 0, 0>> >>]
    /\ Len(mt.value.v) = 1
    /\ mt.value.v[1] = [q \in 1..27 |-> 1]

\* --------------------------------------------------------------------- C29
\* C29 (MomentsSpec): get_default_moment_transform returns a D1Q3Transform
\* for D1Q3 and a D2Q9Lallemand for D2Q9, and raises LettuceException,
\* returning no transform, for every other stencil.
C29_DefaultTransform ==
    (mt.pc \in {"returned", "raised"} /\ mt.op = "get_default_moment_transform") =>
        /\ mt.stencil = "D1Q3" => mt.pc = "returned" /\ mt.class = "D1Q3Transform"
        /\ mt.stencil = "D2Q9" => mt.pc = "returned" /\ mt.class = "D2Q9Lallemand"
        /\ mt.stencil \notin {"D1Q3", "D2Q9"} =>
               mt.pc = "raised" /\ mt.error = "LettuceException" /\ mt.class = ""

\* The call for a D3Q27 lattice has raised.
C29_Witness ==
    /\ mt.pc = "raised"
    /\ mt.op = "get_default_moment_transform"
    /\ mt.stencil = "D3Q27"
    /\ mt.error = "LettuceException"

\* --------------------------------------------------------------------- C24
HookedParameters == {"f_next", "no_stream_mask"}

\* What the two queries answer for every name.
Answers(g) ==
    [name \in HookedParameters |-> <<launcher_hooked(g, name), kernel_hooked(g, name)>>]

\* The queries on the Generator as it is: both answer false on a fresh and
\* on a reset Generator; launcher_hook makes launcher_hooked true for its
\* name and changes no other answer, kernel_hook likewise; and a
\* generate_no_stream_mask or generate_f_next that finds both parameters
\* hooked, so that of its hook statements only the queries run, leaves
\* buffers, registry and slot tables as they are.
QueriesAnswerMembership ==
    /\ \A name \in HookedParameters :
           /\ Answers(EmptyGenerator)[name] = <<FALSE, FALSE>>
           /\ Answers(reset(gen))[name] = <<FALSE, FALSE>>
           /\ ~Failed(gen) =>
                  /\ Answers(launcher_hook(gen, name, ForeignType(name), name, name))
                         = [Answers(gen) EXCEPT ![name] = <<TRUE, @[2]>>]
                  /\ Answers(kernel_hook(gen, name, ForeignType(name), name))
                         = [Answers(gen) EXCEPT ![name] = <<@[1], TRUE>>]
    /\ Answers(gen)["no_stream_mask"] = <<TRUE, TRUE>> =>
           Content(generate_no_stream_mask(gen)) = Content(gen)
    /\ (Answers(gen)["f_next"] = <<TRUE, TRUE>> /\ registered(gen, "f_next")) =>
           Content(generate_f_next(gen)) = Content(gen)

\* C24 (Spec): launcher_hooked and kernel_hooked answer membership in their
\* slot table and change nothing, and within a generation run an answer that
\* is true stays true: only the reset at the start of the next generate()
\* makes it false again.
C24_HookQueries ==
    /\ []QueriesAnswerMembership
    /\ [][\A name \in HookedParameters :
              outputs' = outputs =>
                  /\ launcher_hooked(gen, name) => launcher_hooked(gen', name)
                  /\ kernel_hooked(gen, name) => kernel_hooked(gen', name)]_vars

\* The launcher parameter f_next is hooked and its kernel parameter is not,
\* after the streaming component was asked for the mask.
C24_Witness ==
    /\ launcher_hooked(gen, "f_next")
    /\ ~kernel_hooked(gen, "f_next")
    /\ launcher_hooked(gen, "no_stream_mask")
    /\ kernel_hooked(gen, "no_stream_mask")
    /\ Count(gen.python_wrapper_before_buffer, NoStreamMaskAssertion) = 1

\* --------------------------------------------------------------------- C25
\* C25 (KernelSpec): with StandardStreaming without the mask, what a thread
\* that is done has written to f_next is still there, direction by
\* direction, whatever the other threads did since; when every thread is
\* done no slot of f_next holds what it held before the first launch; and
\* the destinations of all (direction, cell) pairs are as many as the slots.
C25_EverySlotOnce ==
    (kcfg.kind = "standard" /\ ~kcfg.mask) =>
        /\ \A c \in DOMAIN pc :
               pc[c] = "done" =>
                   \A i \in 0..(StencilQ(kcfg.d) - 1) :
                       mem[simFNext][Coord(i, Destination(kcfg, c, i, FALSE), kcfg.dimension)]
                           = mem[simF][Coord(i, c, kcfg.dimension)]
        /\ (\A c \in DOMAIN pc : pc[c] = "done") =>
               /\ \A o \in Slots(kcfg) : mem[simFNext][o] # Stale
               /\ Cardinality({Coord(i, Destination(kcfg, c, i, FALSE), kcfg.dimension) :
                                   i \in 0..(StencilQ(kcfg.d) - 1), c \in DOMAIN pc})
                      = Cardinality(Slots(kcfg))

\* Every thread of the first launch on a 3 x 1 grid is done.
C25_Witness ==
    /\ kcfg.kind = "standard"
    /\ ~kcfg.mask
    /\ kcfg.dimension = <<3, 1>>
    /\ step = 0
    /\ \A c \in DOMAIN pc : pc[c] = "done"
    /\ mem[simFNext][Coord(3, <<2, 0>>, kcfg.dimension)]
           = mem[simF][Coord(3, <<0, 0>>, kcfg.dimension)]

\* --------------------------------------------------------------------- C26
\* C26 (KernelSpec): with StandardStreaming and the mask, when every thread
\* of the first launch is done, no slot of f_next holds what it held before
\* the launch.
C26_MaskedEverySlotWritten ==
    (kcfg.kind = "standard" /\ kcfg.mask /\ step = 0
         /\ \A c \in DOMAIN pc : pc[c] = "done") =>
        \A o \in Slots(kcfg) : mem[simFNext][o] # Stale

\* --------------------------------------------------------------------- C30
\* How often text stands in a buffer.
Occurrences(buffer, text) == Cardinality({k \in 1..Len(buffer) : buffer[k] = text})

\* The lines of the write-back that open, separate and close the mask branch.
MaskBranchLines(d) ==
    {"    if (no_stream_mask["
         \o get_lattice_coordinate(SubSeq(<<"index[0]", "index[1]", "index[2]">>, 1, d), d)
         \o "]) {",
     "    } else {",
     "    }"}

\* g1 is g0 after a contribution that left the mask alone: the parameter
\* is in each slot table exactly if it was, and the pre-launch buffer has as
\* many mask assertions as before.
MaskUntouched(g0, g1) ==
    /\ launcher_hooked(g1, "no_stream_mask") <=> launcher_hooked(g0, "no_stream_mask")
    /\ kernel_hooked(g1, "no_stream_mask") <=> kernel_hooked(g0, "no_stream_mask")
    /\ Occurrences(g1.python_wrapper_before_buffer, NoStreamMaskAssertion)
           = Occurrences(g0.python_wrapper_before_buffer, NoStreamMaskAssertion)

\* No line added to the write-back belongs to the mask branch.
NoMaskBranch(g0, g1, d) ==
    \A k \in (Len(g0.write_buffer) + 1)..Len(g1.write_buffer) :
        g1.write_buffer[k] \notin MaskBranchLines(d)

\* The added lines of the write-back hold the wraparound of every axis.
WrapsEveryAxis(g0, g1, d) ==
    \A a \in 0..(d - 1) : \A l \in 1..3 :
        \E k \in (Len(g0.write_buffer) + 1)..Len(g1.write_buffer) :
            g1.write_buffer[k] = WrapLines(a, TRUE)[l][1]

\* C30 (Spec): a call of generate_read_write on a streaming without the mask
\* leaves the mask untouched; of standard streaming it adds no line of the
\* mask branch, and when it is the first call its write-back wraps every axis; NativeNoStreaming.create gives,
\* for either flag, a streaming whose contribution leaves the mask untouched.
C30_NoMaskContribution ==
    /\ [](\A flag \in BOOLEAN :
              LET s == create("NativeNoStreaming", flag) IN
                  /\ s.kind = "no"
                  /\ ~s.mask
                  /\ MaskUntouched(gen, generate_read_write(gen, s, stencilD)))
    /\ [][(/\ ~streaming.mask
           /\ outputs' = outputs
           /\ trace' # <<>>
           /\ trace'[1] = <<"call", "generate_read_write">>)
          => /\ MaskUntouched(gen, gen')
             /\ streaming.kind = "standard" => NoMaskBranch(gen, gen', stencilD)
             /\ (streaming.kind = "standard" /\ ~registered(gen, "read_write()"))
                    => WrapsEveryAxis(gen, gen', stencilD)]_vars

\* Standard streaming without the mask has made its contribution: f_next is
\* a launcher parameter, no_stream_mask is in neither table.
C30_Witness ==
    /\ streaming.kind = "standard"
    /\ ~streaming.mask
    /\ stencilD = 3
    /\ Len(trace) > 1
    /\ trace[1] = <<"call", "generate_read_write">>
    /\ registered(gen, "read_write()")
    /\ launcher_hooked(gen, "f_next")
    /\ gen.write_buffer # <<>>
    /\ ~launcher_hooked(gen, "no_stream_mask")
    /\ ~kernel_hooked(gen, "no_stream_mask")

\* --------------------------------------------------------------------- C27
\* C27 (BounceSpec): after an odd number of applications every masked cell
\* holds, in each direction q, the population the distribution started with
\* in direction opposite[q], and every unmasked cell holds what it started
\* with; after an even number the distribution is the one it started as.
C27_BounceBack ==
    bounce.pc = "ready" =>
        LET opposite == Opposite(StencilE(Len(bounce.dimension))) IN
        /\ \A q \in DOMAIN opposite : opposite[opposite[q]] = q
        /\ bounce.calls % 2 = 1 =>
               \A q \in DOMAIN bounce.f : \A c \in DOMAIN bounce.mask :
                   bounce.f[q][c] = IF bounce.mask[c] THEN bounce.start[opposite[q]][c]
                                    ELSE bounce.start[q][c]
        /\ bounce.calls % 2 = 0 => bounce.f = bounce.start

\* Applied twice on a 2 x 1 grid of D2Q9 with one masked cell and one not.
C27_Witness ==
    /\ bounce.pc = "ready"
    /\ bounce.calls = 2
    /\ bounce.dimension = <<2, 1>>
    /\ bounce.mask[<<0, 0>>]
    /\ ~bounce.mask[<<1, 0>>]
    /\ bounce.f = bounce.start

\* --------------------------------------------------------------------- C28
\* The calls whose i is a multiple of the interval, in call order.
Reported(r) == SelectSeq(r.calls, LAMBDA c : \E k \in 0..c.i : c.i = k * r.interval)

\* C28 (ReporterSpec): while every call has returned, the observable was
\* evaluated once for each call whose i is a multiple of the interval and for
\* no other; the output holds one entry for each of them and none for the
\* others, in call order; and with out=None each entry is i, t and then the
\* observed values.
C28_ReportsEveryInterval ==
    reporter.pc = "ready" =>
        /\ reporter.evaluated = Len(Reported(reporter))
        /\ Len(reporter.out) = Len(Reported(reporter))
        /\ reporter.out_is_list =>
               \A k \in 1..Len(reporter.out) :
                   LET c == Reported(reporter)[k] IN
                       /\ SubSeq(reporter.out[k], 1, 2) = <<c.i, c.t>>
                       /\ SubSeq(reporter.out[k], 3, Len(reporter.out[k]))
                              = IF c.observed.shape = 0 THEN <<c.observed.data>>
                                ELSE c.observed.data

\* With interval 2 and out=None: a call with i = 1 left everything as it was
\* and a call with i = 2 then recorded its entry.
C28_Witness ==
    /\ reporter.pc = "ready"
    /\ reporter.interval = 2
    /\ reporter.out_is_list
    /\ Len(reporter.calls) = 2
    /\ reporter.calls[1].i = 1
    /\ reporter.calls[2].i = 2
    /\ reporter.evaluated = 1
    /\ reporter.out = << <<2, 11, 7, 8>> >>

====
